---------------------------- MODULE Spec2Model ----------------------------
(***************************************************************************)
(* Verification model of the baudtime gateway coordination core:           *)
(*   - backend/fanout.go : mergeSeriesSet, mergeIterator (k-way merges)    *)
(*   - meta (route cache, cluster view, watcher, failover coordinator)     *)
(* Each part has its own specification (SpecMergeSet, SpecMergeIter, ...)  *)
(* over its own variables; the variables of the other parts stay at their  *)
(* initial values.                                                         *)
(***************************************************************************)
EXTENDS Integers, Sequences, FiniteSets, TLC

VARIABLES
  \* ---- mergeSeriesSet (backend/fanout.go) ----
  msSets,          \* the child series sets: a sequence of label-set sequences
  msPos,           \* cursor of every child (0 = before the first series)
  msHeap,          \* mergeSeriesSet.heap : child indices
  msCurrentSets,   \* mergeSeriesSet.currentSets : child indices
  msCurrentLabels, \* mergeSeriesSet.currentLabels (0 = nil)
  msOut,           \* history: label sets yielded by successful Next() calls
  msDone,          \* history: Next() has returned false
  \* ---- mergeIterator (backend/fanout.go) ----
  miIters,         \* the constituent iterators: sequences of timestamps
  miPos,           \* cursor of every constituent iterator
  miH,             \* mergeIterator.h : iterator indices
  miHNil,          \* mergeIterator.h == nil
  miOut,           \* history: <<t, v>> returned by At() after each successful Next()
  miDone,          \* history: Next() has returned false
  \* ---- meta: cluster view, node watcher, failover coordinator ----
  storeNodes,      \* consensus store, node keys: address -> "master" | "slave" | "absent"
  promoted,        \* nodes that have executed a 'slaveof no-one' command
  nch,             \* per gateway: node-key watch events not yet handled
  view,            \* per gateway: meta.shards, the published map and its generation
  refreshing,      \* per gateway: meta.refreshing
  latched,         \* per gateway: the Shard structs whose failovering is 1
  mutexHolder,     \* holder of the consensus-store mutex "failover"
  pc,              \* per thread: position in the code
  foNode,          \* per thread: the node FailoverIfNeeded was called with
  foRef,           \* per thread: generation of the Shard struct got by GetShard
  foChosen,        \* per thread: the chosen slave
  foReply,         \* per thread: what the chosen slave answers
  foErr,           \* per thread: the error the mutex callback returns
  foExit,          \* per thread: exit path taken by the mutex callback
  foSnap,          \* per thread: the map RefreshCluster is building
  sent,            \* history: per thread, the 'slaveof no-one' commands it has written
  deaths,          \* history: number of node keys deleted
  calls,           \* history: per thread, number of direct FailoverIfNeeded calls
  \* ---- meta: route cache ----
  rtLayout,        \* configuration: the form of routeInfoPrefix()
  kv,              \* consensus store, route keys of the metric: day -> shard group
  rch,             \* per gateway: route-key watch events not yet handled
  routeInfos,      \* per gateway: meta.routeInfos entry of the metric (0 = none)
  ri,              \* per gateway: the RouteInfo objects (byDay, Timeline, lock)
  rpc,             \* per caller: position in getShardIDs
  rDay,            \* per caller: the day getShardIDs was called with
  rRef,            \* per caller: the RouteInfo it locked (0 = none)
  rGroup,          \* per caller: local shardGroup
  rErr,            \* per caller: local err
  rtResult,        \* history: per caller, what its last getShardIDs returned
  rtCalls,         \* history: number of getShardIDs calls
  putCount,        \* history: per gateway and day, puts since the key last expired
  expired,         \* history: the days whose route key has expired, as a sequence
  \* ---- mergeQuerier.Select (backend/fanout.go) ----
  fqQueriers,      \* per querier: what the Select of its shard returns
  fqRunning,       \* the goroutines that have not finished
  fqMultiErr,      \* multiErr: the shards whose errors were appended, in order
  fqSeriesSets,    \* seriesSets
  fqRet,           \* what Select has returned
  \* ---- meta: cluster view (RefreshCluster and its readers) ----
  rvStore,         \* consensus store, node keys: address -> Node record
  rvVersion,       \* history: number of changes of the node keys
  rvView,          \* meta.shards: the published map
  rvMaps,          \* the map objects
  rvMapInfo,       \* history: per map, the enumeration it is built from
  rvRefreshing,    \* meta.refreshing
  rvPc,            \* per refresher: position in RefreshCluster
  rvLocal,         \* per refresher: its local map shards
  rvNodes,         \* per refresher: the nodes the loop has still to visit
  rvStart,         \* history: per refresher, rvVersion when its call started
  rvReturned,      \* history: latest start of a call that has returned nil
  rdMap,           \* per reader: the map it has loaded
  rdSeen,          \* history: per reader, the content of the map when it loaded it
  \* ---- FailoverIfNeeded: the choice of the promotion target ----
  chSlaves,        \* slaves := GetSlaves(node.ShardID)
  chNode,          \* node, the dead node
  chChosen,        \* chosen, Nil before the choice
  \* ---- mergeQuerier.LabelValues ----
  lvQueriers,      \* per querier, what the LabelValues of its shard returns
  lvRunning,       \* the goroutines that have not finished
  lvMultiErr,      \* multiErr: the failed queriers, in the order they finished
  lvResults,       \* results: the value lists, in the order the shards answered
  lvRet,           \* what LabelValues has returned
  \* ---- fan-out write and read of one sample ----
  rwCap,           \* shard_group_cap of the gateways
  rwHash,          \* the hash of the label set of the sample
  rwKey,           \* the route key of (metric, day(t)) in the store
  rwCache,         \* per gateway, the cached group of (metric, day(t))
  rwPc,            \* per gateway, the position of its Add or Select
  rwOp,            \* per gateway, the operation it runs
  rwGroup,         \* per gateway, the group getShardIDs returned
  rwData,          \* per shard, the points of the series
  rwAdded,         \* the shard the sample was added to (empty before)
  rwSelects,       \* per gateway, the Select calls started
  rwRet,           \* per gateway, what its last Select after the write returned
  \* ---- fanoutAppender.Flush ----
  flAppenders,     \* fanoutApp.appenders: per shard, none or whether its Flush fails
  flPending,       \* the appenders the loop has not reached
  flFlushed,       \* history: the appenders whose Flush was called
  flMultiErr,      \* multiErr: the failing appenders, in the order of the loop
  flRet,           \* what Flush has returned
  \* ---- FailoverIfNeeded, from call to return ----
  feNode,          \* the argument
  feShards,        \* the ShardIDs of the view
  feFailovering,   \* shard.failovering of each shard
  fePc,            \* position of the call
  feEffect,        \* what the call has done
  \* ---- meta.watch, one response of the node watch ----
  nbWresp,         \* wresp.Events
  nbNext,          \* index of the next event of the range loop
  nbLog,           \* the calls made, in order
  nbPc,            \* position of the watcher
  \* ---- meta.watch, the watch channels ----
  wsChan,          \* rch, gch, nch: open or closed
  wsQueue,         \* responses waiting in each channel
  wsMissed,        \* changes after the close of a channel
  wsRefreshes,     \* RefreshCluster calls of the loop
  \* ---- meta.getShardIDs, the calls of one goroutine ----
  gaKv,            \* the route keys of the store, by day
  gaSgStore,       \* the sgroute key of the metric
  gaInfo,          \* the RouteInfo of the metric
  gaRouteK,        \* routeInfo.ShardGrpRouteK
  gaPc,            \* position of the call
  gaDay,           \* day of the call
  gaSg,            \* sGrpRouteKey, shardGrpRouteK of the call
  gaGroup,         \* shardGroup of the call
  gaErr,           \* err of the call
  gaMasters,       \* what GetMasters() returned to the call
  gaBefore,        \* the cache when the call began
  gaPuts,          \* puts of the call
  gaCalls,         \* calls made
  gaRet,           \* what the last call returned
  \* ---- mergeSeriesSet.At ----
  maAt,            \* what the last At() returned
  \* ---- mergeSeriesSet.Err ----
  meErrs,          \* whether the Err() of each child is an error
  meRet,           \* what the last Err() returned
  \* ---- fanoutAppender.Add ----
  faAppenders,     \* fanoutApp.appenders, by shardID (0: no entry)
  faCreated,       \* appenders made by newAppender
  faLog,           \* the samples handed to app.Add
  faBefore,        \* the map when the last Add began
  faAdds,          \* Add calls made
  faRet,           \* what the last Add returned
  \* ---- RefreshCluster: the return values ----
  reRet,           \* what the last RefreshCluster of each caller returned
  \* ---- Watch() and the goroutine of m.watch() ----
  gmPc,            \* the next statement of Watch()
  gmShards,        \* m.shards, nil or a map
  gmGlobal,        \* globalMeta, nil or m
  gmWatcher,       \* the next statement of the watcher goroutine
  gmNch,           \* the node responses waiting in nch
  gmNode,          \* the node FailoverIfNeeded was called with
  gmSent,          \* node events delivered so far
  gmRead,          \* the last read of globalMeta and of its shards pointer
  gmPanic,         \* a nil pointer was dereferenced
  \* ---- tcp.ReadWriteLoop ----
  lpClosed,        \* loop.closed
  lpWrClosed,      \* loop.wrClosed
  lpRdClosed,      \* loop.rdClosed
  lpConnCloses,    \* calls of conn.Close()
  lpOut,           \* elements of the outgoing queue
  lpOutClosed,     \* out.Close() was called
  lpOnExit,        \* loop.onExit != nil
  lpOnExitRuns,    \* calls of loop.onExit
  lpRd,            \* the next statement of LoopRead
  lpWr,            \* the next statement of LoopWrite
  lpBlock,         \* the local block of LoopWrite
  lpExit,          \* the next statement of each Exit call
  lpWrite,         \* the Write call: its position, whether it began after Exit or CloseWrite, its result
  lpIn,            \* results of ReadMsg on the open connection so far
  lpWrites         \* calls of Write so far

msVars == <<msSets, msPos, msHeap, msCurrentSets, msCurrentLabels, msOut, msDone>>
miVars == <<miIters, miPos, miH, miHNil, miOut, miDone>>
foVars == <<storeNodes, promoted, nch, view, refreshing, latched, mutexHolder, pc,
            foNode, foRef, foChosen, foReply, foErr, foExit, foSnap, sent, deaths, calls>>
rtVars == <<rtLayout, kv, rch, routeInfos, ri, rpc, rDay, rRef, rGroup, rErr,
            rtResult, rtCalls, putCount, expired>>
fqVars == <<fqQueriers, fqRunning, fqMultiErr, fqSeriesSets, fqRet>>
rvVars == <<rvStore, rvVersion, rvView, rvMaps, rvMapInfo, rvRefreshing, rvPc, rvLocal, rvNodes, rvStart, rvReturned, rdMap, rdSeen>>
chVars == <<chSlaves, chNode, chChosen>>
lvVars == <<lvQueriers, lvRunning, lvMultiErr, lvResults, lvRet>>
rwVars == <<rwCap, rwHash, rwKey, rwCache, rwPc, rwOp, rwGroup, rwData, rwAdded, rwSelects, rwRet>>
flVars == <<flAppenders, flPending, flFlushed, flMultiErr, flRet>>
feVars == <<feNode, feShards, feFailovering, fePc, feEffect>>
nbVars == <<nbWresp, nbNext, nbLog, nbPc>>
wsVars == <<wsChan, wsQueue, wsMissed, wsRefreshes>>
gaVars == <<gaKv, gaSgStore, gaInfo, gaRouteK, gaPc, gaDay, gaSg, gaGroup, gaErr, gaMasters, gaBefore, gaPuts, gaCalls, gaRet>>
maVars == <<maAt>>
meVars == <<meErrs, meRet>>
faVars == <<faAppenders, faCreated, faLog, faBefore, faAdds, faRet>>
reVars == <<reRet>>
gmVars == <<gmPc, gmShards, gmGlobal, gmWatcher, gmNch, gmNode, gmSent, gmRead, gmPanic>>
lpVars == <<lpClosed, lpWrClosed, lpRdClosed, lpConnCloses, lpOut, lpOutClosed, lpOnExit, lpOnExitRuns, lpRd, lpWr, lpBlock, lpExit, lpWrite, lpIn, lpWrites>>

-----------------------------------------------------------------------------
(* Bounds of the merge models *)

MaxChildren == 3     \* number of child series sets / constituent iterators
LabelSets == 1..4    \* the label sets a, b, c, d, ordered as labels.Compare orders them
Times == 1..3        \* the timestamps

\* strictly ascending sequences over the set 1..n (a child that iterates in
\* ascending order; a label set identifies a series, so no child repeats one)
RECURSIVE AscSeqsTo(_)
AscSeqsTo(n) ==
  IF n = 0 THEN { <<>> }
  ELSE AscSeqsTo(n - 1) \cup { Append(s, n) : s \in AscSeqsTo(n - 1) }
AscSeqs(S) == AscSeqsTo(Cardinality(S))

\* all sequences of length 0..k over the set S
RECURSIVE SeqsUpTo(_, _)
SeqsUpTo(S, k) ==
  IF k = 0 THEN { <<>> }
  ELSE SeqsUpTo(S, k - 1) \cup
       { Append(s, x) : s \in { q \in SeqsUpTo(S, k - 1) : Len(q) = k - 1 }, x \in S }

-----------------------------------------------------------------------------
(* container/heap over seriesSetHeap and seriesIteratorHeap.  A heap is a  *)
(* sequence of child indices; key[c] is the current key of child c (its    *)
(* current label set, or the timestamp under its cursor).  Indices i, j    *)
(* are the 0-based indices of the Go code.                                 *)

\* mutation of seriesSetHeap.Less: the comparison reversed
seriesSetHeap_Less_Reversed(a, b) == a > b

\* labels.Compare(a, b) < 0 on the label sets under the cursors
seriesSetHeap_Less(a, b) == a < b

\* mutation of seriesIteratorHeap.Less: the comparison reversed
seriesIteratorHeap_Less_Reversed(at, bt) == at > bt

\* at < bt on the timestamps under the cursors
seriesIteratorHeap_Less(at, bt) == at < bt

heapLess(kind, key, h, i, j) ==
  IF kind = "set" THEN seriesSetHeap_Less(key[h[i + 1]], key[h[j + 1]])
                  ELSE seriesIteratorHeap_Less(key[h[i + 1]], key[h[j + 1]])

heapSwap(h, i, j) == [h EXCEPT ![i + 1] = h[j + 1], ![j + 1] = h[i + 1]]

RECURSIVE heapUp(_, _, _, _)
heapUp(kind, key, h, j) ==
  LET i == IF j = 0 THEN 0 ELSE (j - 1) \div 2   \* parent
  IN  IF i = j \/ ~heapLess(kind, key, h, j, i)
      THEN h
      ELSE heapUp(kind, key, heapSwap(h, i, j), i)

RECURSIVE heapDown(_, _, _, _, _)
heapDown(kind, key, h, i, n) ==
  LET j1 == 2 * i + 1 IN
  IF j1 >= n THEN h
  ELSE LET j == IF j1 + 1 < n /\ heapLess(kind, key, h, j1 + 1, j1)
                THEN j1 + 1 ELSE j1
       IN  IF ~heapLess(kind, key, h, j, i)
           THEN h
           ELSE heapDown(kind, key, heapSwap(h, i, j), j, n)

\* heap.Push(&h, x): append, then sift up
heapPush(kind, key, h, x) == heapUp(kind, key, Append(h, x), Len(h))

\* heap.Pop(&h): swap first and last, sift down, cut the last off
heapPop(kind, key, h) ==
  LET n  == Len(h) - 1
      h2 == heapDown(kind, key, heapSwap(h, 0, n), 0, n)
  IN  [x |-> h2[n + 1], h |-> SubSeq(h2, 1, n)]

-----------------------------------------------------------------------------
(* mergeSeriesSet *)

\* a child SeriesSet: Next() advances the cursor and tells whether a series is there
childNext(sets, pos, c) == IF pos[c] < Len(sets[c]) THEN pos[c] + 1 ELSE Len(sets[c]) + 1
childHas(sets, pos, c) == pos[c] >= 1 /\ pos[c] <= Len(sets[c])

\* set.At().Labels() of every child (0 where the child has no current series)
curLabels(sets, pos) ==
  [c \in 1..Len(sets) |-> IF childHas(sets, pos, c) THEN sets[c][pos[c]] ELSE 0]

\* for _, set := range cs { if set.Next() { heap.Push(&h, set) } }
RECURSIVE advanceAndPush(_, _, _, _)
advanceAndPush(sets, cs, pos, h) ==
  IF cs = <<>> THEN [pos |-> pos, heap |-> h]
  ELSE LET c    == Head(cs)
           pos2 == [pos EXCEPT ![c] = childNext(sets, pos, c)]
           h2   == IF childHas(sets, pos2, c)
                   THEN heapPush("set", curLabels(sets, pos2), h, c)
                   ELSE h
       IN  advanceAndPush(sets, Tail(cs), pos2, h2)

\* mutation of the pop loop of Next(): only the top of the heap is popped
popEqual_OnlyTop(key, h, lbl, cs) ==
  LET p == heapPop("set", key, h)
  IN  [heap |-> p.h, currentSets |-> Append(cs, p.x)]

\* pop items of the heap that have equal label sets
RECURSIVE popEqual(_, _, _, _)
popEqual(key, h, lbl, cs) ==
  IF Len(h) > 0 /\ key[h[1]] = lbl
  THEN LET p == heapPop("set", key, h)
       IN  popEqual(key, p.h, lbl, Append(cs, p.x))
  ELSE [heap |-> h, currentSets |-> cs]

\* NewMergeSeriesSet: pre-advance every set and push the non-empty ones.
\* With exactly one set the set itself is returned (no heap is built).
NewMergeSeriesSet(sets) ==
  IF Len(sets) = 1
  THEN [pos |-> [c \in 1..1 |-> 0], heap |-> <<>>]
  ELSE advanceAndPush(sets, [c \in 1..Len(sets) |-> c],
                      [c \in 1..Len(sets) |-> 0], <<>>)

MsInit ==
  /\ msSets \in SeqsUpTo(AscSeqs(LabelSets), MaxChildren)
  /\ LET m == NewMergeSeriesSet(msSets)
     IN  msPos = m.pos /\ msHeap = m.heap
  /\ msCurrentSets = <<>>
  /\ msCurrentLabels = 0
  /\ msOut = <<>>
  /\ msDone = FALSE

\* Next() of the set NewMergeSeriesSet returned for a single child: the child's own
singleSet_Next ==
  /\ Len(msSets) = 1
  /\ ~msDone
  /\ LET pos2 == [msPos EXCEPT ![1] = childNext(msSets, msPos, 1)]
     IN  /\ msPos' = pos2
         /\ IF childHas(msSets, pos2, 1)
            THEN /\ msCurrentLabels' = msSets[1][pos2[1]]
                 /\ msCurrentSets' = <<1>>
                 /\ msOut' = Append(msOut, msSets[1][pos2[1]])
                 /\ msDone' = FALSE
            ELSE /\ msDone' = TRUE
                 /\ UNCHANGED <<msCurrentLabels, msCurrentSets, msOut>>
  /\ UNCHANGED <<msSets, msHeap>>

\* the state a successful or failing mergeSeriesSet.Next() leaves
mergeSeriesSet_NextResult(sets, pos, heap, currentSets, currentLabels) ==
  LET a == advanceAndPush(sets, currentSets, pos, heap)
  IN  IF Len(a.heap) = 0
      THEN [ok |-> FALSE, pos |-> a.pos, heap |-> a.heap,
            currentSets |-> currentSets, currentLabels |-> currentLabels]
      ELSE LET key == curLabels(sets, a.pos)
               lbl == key[a.heap[1]]
               p   == popEqual(key, a.heap, lbl, <<>>)
           IN  [ok |-> TRUE, pos |-> a.pos, heap |-> p.heap,
                currentSets |-> p.currentSets, currentLabels |-> lbl]

mergeSeriesSet_Next ==
  /\ Len(msSets) # 1
  /\ ~msDone
  /\ LET r == mergeSeriesSet_NextResult(msSets, msPos, msHeap, msCurrentSets, msCurrentLabels)
     IN  /\ msPos' = r.pos
         /\ msHeap' = r.heap
         /\ msCurrentSets' = r.currentSets
         /\ msCurrentLabels' = r.currentLabels
         /\ msOut' = IF r.ok THEN Append(msOut, r.currentLabels) ELSE msOut
         /\ msDone' = ~r.ok
  /\ UNCHANGED msSets

-----------------------------------------------------------------------------
(* mergeIterator *)

\* iter.At() timestamps of every constituent (0 where it has no current point)
curTimes(iters, pos) ==
  [c \in 1..Len(iters) |-> IF childHas(iters, pos, c) THEN iters[c][pos[c]] ELSE 0]

\* for _, iter := range c.iterators { if iter.Next() { heap.Push(&c.h, iter) } }
RECURSIVE iterAdvanceAndPush(_, _, _, _)
iterAdvanceAndPush(iters, cs, pos, h) ==
  IF cs = <<>> THEN [pos |-> pos, h |-> h]
  ELSE LET c    == Head(cs)
           pos2 == [pos EXCEPT ![c] = childNext(iters, pos, c)]
           h2   == IF childHas(iters, pos2, c)
                   THEN heapPush("iter", curTimes(iters, pos2), h, c)
                   ELSE h
       IN  iterAdvanceAndPush(iters, Tail(cs), pos2, h2)

\* mutation of mergeIterator.Next: the first call pops the heap it has just built
mergeIterator_NextResult_PopFirst(iters, pos, h, hNil) ==
  LET a == IF hNil
           THEN iterAdvanceAndPush(iters, [c \in 1..Len(iters) |-> c], pos, <<>>)
           ELSE [pos |-> pos, h |-> h]
  IN  IF Len(a.h) = 0
      THEN [ok |-> FALSE, pos |-> a.pos, h |-> a.h, hNil |-> hNil]
      ELSE LET p == heapPop("iter", curTimes(iters, a.pos), a.h)
               b == iterAdvanceAndPush(iters, <<p.x>>, a.pos, p.h)
           IN  [ok |-> Len(b.h) > 0, pos |-> b.pos, h |-> b.h, hNil |-> FALSE]

\* the state mergeIterator.Next() leaves, and its return value
mergeIterator_NextResult(iters, pos, h, hNil) ==
  IF hNil
  THEN LET a == iterAdvanceAndPush(iters, [c \in 1..Len(iters) |-> c], pos, <<>>)
       IN  [ok |-> Len(a.h) > 0, pos |-> a.pos, h |-> a.h, hNil |-> Len(a.h) = 0]
  ELSE IF Len(h) = 0
  THEN [ok |-> FALSE, pos |-> pos, h |-> h, hNil |-> FALSE]
  ELSE LET p == heapPop("iter", curTimes(iters, pos), h)
           a == iterAdvanceAndPush(iters, <<p.x>>, pos, p.h)
       IN  [ok |-> Len(a.h) > 0, pos |-> a.pos, h |-> a.h, hNil |-> FALSE]

\* At(): c.h[0].At(); the value is identified by its constituent and its index there
mergeIterator_At(iters, pos, h) == <<iters[h[1]][pos[h[1]]], <<h[1], pos[h[1]]>> >>

MiInit ==
  /\ miIters \in SeqsUpTo(AscSeqs(Times), MaxChildren)
  /\ miPos = [c \in 1..Len(miIters) |-> 0]
  /\ miH = <<>>
  /\ miHNil = TRUE
  /\ miOut = <<>>
  /\ miDone = FALSE

mergeIterator_Next ==
  /\ ~miDone
  /\ LET r == mergeIterator_NextResult(miIters, miPos, miH, miHNil)
     IN  /\ miPos' = r.pos
         /\ miH' = r.h
         /\ miHNil' = r.hNil
         /\ miOut' = IF r.ok THEN Append(miOut, mergeIterator_At(miIters, r.pos, r.h)) ELSE miOut
         /\ miDone' = ~r.ok
  /\ UNCHANGED miIters

-----------------------------------------------------------------------------
(* meta: cluster view (RefreshCluster), node watcher, failover coordinator.  *)
(* K gateways, each a process with its own meta (view, refreshing flag),     *)
(* its own watcher goroutine and further goroutines that call                *)
(* FailoverIfNeeded; all share the consensus store and its mutex.            *)

MaxDeaths == 1       \* node keys that disappear from the store
MaxCalls == 1        \* direct FailoverIfNeeded calls per calling goroutine

Gateways == {1, 2}
Watcher == 1         \* goroutine 1 of a gateway is its watcher, the others call
\* the goroutines: gateway 1 runs its watcher and one more caller of
\* FailoverIfNeeded, gateway 2 runs its watcher
Threads == {<<1, 1>>, <<1, 2>>, <<2, 1>>}
NoThread == <<0, 0>>

Nil == "nil"
Addrs == {"m", "s1", "s2"}
NodeOrder == <<"m", "s1", "s2">>     \* enumeration order of the node keys
ShardIDs == {"S"}
ShardOf(a) == "S"
IDC(a) == IF a = "s2" THEN "z2" ELSE "z1"
InitialRole(a) == IF a = "m" THEN "master" ELSE "slave"

\* GetNodes(false): the nodes registered in the store, in key order
GetNodes(st) == SelectSeq(NodeOrder, LAMBDA a : st[a] # "absent")

\* Node: master iff MasterIP == "" && MasterPort == ""
IsMasterNode(st, a) == st[a] = "master"

\* the loop of RefreshCluster over one shard's nodes: the last node with empty
\* MasterIP and MasterPort ends as Master, the others are appended to Slaves
RECURSIVE buildShard(_, _, _)
buildShard(st, ns, shard) ==
  IF ns = <<>> THEN shard
  ELSE LET n == Head(ns)
       IN  buildShard(st, Tail(ns),
             IF IsMasterNode(st, n)
             THEN [shard EXCEPT !.Master = n]
             ELSE [shard EXCEPT !.Slaves = Append(shard.Slaves, n)])

NoShard == [found |-> FALSE, Master |-> Nil, Slaves |-> <<>>]

\* the map RefreshCluster builds from the enumerated nodes
buildShards(st) ==
  [s \in ShardIDs |->
     LET ns == SelectSeq(GetNodes(st), LAMBDA a : ShardOf(a) = s)
     IN  IF ns = <<>> THEN NoShard
         ELSE buildShard(st, ns, [found |-> TRUE, Master |-> Nil, Slaves |-> <<>>])]

\* GetShard, GetMaster, GetSlaves on the map loaded from the pointer
GetShard(v, s) == v.shards[s]
GetMaster(v, s) == IF ~v.shards[s].found THEN Nil ELSE v.shards[s].Master
GetSlaves(v, s) == IF ~v.shards[s].found THEN <<>> ELSE v.shards[s].Slaves

\* the choice loop: the last slave of the list with the dead node's IDC, or slaves[0]
RECURSIVE chooseLoop(_, _, _)
chooseLoop(slaves, idc, chosen) ==
  IF slaves = <<>> THEN chosen
  ELSE chooseLoop(Tail(slaves), idc, IF IDC(Head(slaves)) = idc THEN Head(slaves) ELSE chosen)

\* mutation of FailoverIfNeeded: the first slave, whatever its idc
chooseSlave_First(slaves, node) == slaves[1]

chooseSlave(slaves, node) ==
  LET c == chooseLoop(slaves, IDC(node), Nil)
  IN  IF c = Nil THEN slaves[1] ELSE c

\* mutexRun (consensus-store mutex): the callback runs only while nobody holds it
mutexRun_Free(holder) == holder = NoThread

\* mutation of FailoverIfNeeded: the failover procedure is run without mutexRun
failoverEnter_NoMutex(holder) == TRUE

\* failoverErr := mutexRun("failover", func ...): when the procedure may start
failoverEnter(holder) == mutexRun_Free(holder)

NoSnap == [ok |-> FALSE, shards |-> [s \in ShardIDs |-> NoShard]]

Broadcast(q, ev) == [g \in Gateways |-> Append(q[g], ev)]

\* every gateway has refreshed its view from the node keys st
FoInitWith(st) ==
  /\ storeNodes = st
  /\ promoted = {}
  /\ nch = [g \in Gateways |-> <<>>]
  /\ view = [g \in Gateways |-> [gen |-> 1, shards |-> buildShards(st)]]
  /\ refreshing = [g \in Gateways |-> 0]
  /\ latched = [g \in Gateways |-> {}]
  /\ mutexHolder = NoThread
  /\ pc = [t \in Threads |-> "idle"]
  /\ foNode = [t \in Threads |-> Nil]
  /\ foRef = [t \in Threads |-> 0]
  /\ foChosen = [t \in Threads |-> Nil]
  /\ foReply = [t \in Threads |-> "none"]
  /\ foErr = [t \in Threads |-> "nil"]
  /\ foExit = [t \in Threads |-> "none"]
  /\ foSnap = [t \in Threads |-> NoSnap]
  /\ sent = [t \in Threads |-> <<>>]
  /\ deaths = 0
  /\ calls = [t \in Threads |-> 0]

\* a shard with its master and two slaves
FoInit == FoInitWith([a \in Addrs |-> InitialRole(a)])

\* what is left of the shard after earlier losses: the slaves without a master
\* (the master's key is gone and no slave was promoted), or the master alone
Masterless == [a \in Addrs |-> IF InitialRole(a) = "master" THEN "absent" ELSE "slave"]
MasterOnly == [a \in Addrs |-> IF InitialRole(a) = "master" THEN "master" ELSE "absent"]
DegradedStores == {Masterless, MasterOnly}

\* ---- the environment: the store and the backend nodes ----

\* a node key disappears (lease expiry); every watcher gets a DELETE with the previous value
NodeKeyDeleted(a) ==
  /\ deaths < MaxDeaths
  /\ storeNodes[a] # "absent"
  /\ storeNodes' = [storeNodes EXCEPT ![a] = "absent"]
  /\ nch' = Broadcast(nch, [type |-> "DELETE", addr |-> a])
  /\ deaths' = deaths + 1
  /\ UNCHANGED <<promoted, view, refreshing, latched, mutexHolder, pc, foNode, foRef,
                 foChosen, foReply, foErr, foExit, foSnap, sent, calls>>

\* a promoted slave registers itself with empty MasterIP and MasterPort; a PUT event
NodeReportsMaster(a) ==
  /\ a \in promoted
  /\ storeNodes[a] = "slave"
  /\ storeNodes' = [storeNodes EXCEPT ![a] = "master"]
  /\ nch' = Broadcast(nch, [type |-> "PUT", addr |-> a])
  /\ UNCHANGED <<promoted, view, refreshing, latched, mutexHolder, pc, foNode, foRef,
                 foChosen, foReply, foErr, foExit, foSnap, sent, deaths, calls>>

\* ---- RefreshCluster ----

\* where a goroutine continues when FailoverIfNeeded returns: the watcher goes on
\* to m.RefreshCluster(), a direct caller is done
afterFailover(t) == IF t[2] = Watcher THEN "w_refresh" ELSE "idle"

\* CompareAndSwap(&m.refreshing, 0, 1) and GetNodes: a loser returns at once (to pc
\* `done`), the winner holds the enumeration (or its error) and goes to pc `publish`
RefreshStart(t, publish, done) ==
  LET g == t[1] IN
  IF refreshing[g] # 0
  THEN /\ pc' = [pc EXCEPT ![t] = done]
       /\ UNCHANGED <<refreshing, foSnap>>
  ELSE /\ refreshing' = [refreshing EXCEPT ![g] = 1]
       /\ \E ok \in BOOLEAN :
            foSnap' = [foSnap EXCEPT ![t] =
                         IF ok THEN [ok |-> TRUE, shards |-> buildShards(storeNodes)]
                               ELSE NoSnap]
       /\ pc' = [pc EXCEPT ![t] = publish]

\* shards := make(map[string]*Shard), shard = new(Shard): fresh structs.  A struct is
\* named by a number; the number of a struct that no goroutine of the gateway refers
\* to any more and that is not the published one is free to name a new struct.
structsInUse(g) ==
  {view[g].gen} \cup { foRef[t] : t \in { u \in Threads : u[1] = g } } \cup { st[1] : st \in latched[g] }
newStruct(g) == CHOOSE n \in 1..(Cardinality(Threads) + 2) :
                  /\ n \notin structsInUse(g)
                  /\ \A k \in 1..(n - 1) : k \in structsInUse(g)

\* StorePointer(&m.shards, &shards) unless GetNodes failed; the deferred
\* StoreUint32(&m.refreshing, 0)
RefreshPublish(t, done) ==
  LET g == t[1] IN
  /\ view' = IF foSnap[t].ok
             THEN [view EXCEPT ![g] = [gen |-> newStruct(g), shards |-> foSnap[t].shards]]
             ELSE view
  /\ refreshing' = [refreshing EXCEPT ![g] = 0]
  /\ foSnap' = [foSnap EXCEPT ![t] = NoSnap]
  /\ pc' = [pc EXCEPT ![t] = done]

\* ---- the watcher goroutine, case wresp = <-nch ----

\* the next node event: a DELETE with a previous value is handed to
\* FailoverIfNeeded, m.RefreshCluster() follows; a PUT leads to m.RefreshCluster()
WatcherNodeEvent(g) ==
  LET t == <<g, Watcher>> IN
  /\ pc[t] = "idle"
  /\ nch[g] # <<>>
  /\ nch' = [nch EXCEPT ![g] = Tail(nch[g])]
  /\ IF Head(nch[g]).type = "DELETE"
     THEN /\ pc' = [pc EXCEPT ![t] = "enter"]
          /\ foNode' = [foNode EXCEPT ![t] = Head(nch[g]).addr]
     ELSE /\ pc' = [pc EXCEPT ![t] = "w_refresh"]
          /\ UNCHANGED foNode
  /\ UNCHANGED <<storeNodes, promoted, view, refreshing, latched, mutexHolder, foRef,
                 foChosen, foReply, foErr, foExit, foSnap, sent, deaths, calls>>

WatcherRefreshStart(g) ==
  LET t == <<g, Watcher>> IN
  /\ pc[t] = "w_refresh"
  /\ RefreshStart(t, "w_publish", "idle")
  /\ UNCHANGED <<storeNodes, promoted, nch, view, latched, mutexHolder, foNode, foRef,
                 foChosen, foReply, foErr, foExit, sent, deaths, calls>>

WatcherRefreshPublish(g) ==
  LET t == <<g, Watcher>> IN
  /\ pc[t] = "w_publish"
  /\ RefreshPublish(t, "idle")
  /\ UNCHANGED <<storeNodes, promoted, nch, latched, mutexHolder, foNode, foRef,
                 foChosen, foReply, foErr, foExit, sent, deaths, calls>>

\* ---- FailoverIfNeeded ----

\* another goroutine of the gateway calls FailoverIfNeeded for a node whose key is gone
CallFailoverIfNeeded(t, a) ==
  /\ t[2] # Watcher
  /\ pc[t] = "idle"
  /\ calls[t] < MaxCalls
  /\ storeNodes[a] = "absent"
  /\ pc' = [pc EXCEPT ![t] = "enter"]
  /\ foNode' = [foNode EXCEPT ![t] = a]
  /\ calls' = [calls EXCEPT ![t] = calls[t] + 1]
  /\ UNCHANGED <<storeNodes, promoted, nch, view, refreshing, latched, mutexHolder, foRef,
                 foChosen, foReply, foErr, foExit, foSnap, sent, deaths>>

\* shard, found := globalMeta.GetShard(node.ShardID); !found or node.MayOnline(): return
FoGetShard(t) ==
  LET g == t[1] IN
  /\ pc[t] = "enter"
  /\ \E mayOnline \in BOOLEAN :
       IF ~GetShard(view[g], ShardOf(foNode[t])).found \/ mayOnline
       THEN /\ pc' = [pc EXCEPT ![t] = afterFailover(t)]
            /\ foNode' = [foNode EXCEPT ![t] = Nil]
            /\ UNCHANGED foRef
       ELSE /\ pc' = [pc EXCEPT ![t] = "cas"]
            /\ foRef' = [foRef EXCEPT ![t] = view[g].gen]
            /\ UNCHANGED foNode
  /\ UNCHANGED <<storeNodes, promoted, nch, view, refreshing, latched, mutexHolder,
                 foChosen, foReply, foErr, foExit, foSnap, sent, deaths, calls>>

\* if !CompareAndSwap(&shard.failovering, 0, 1) { return }
FoLatch(t) ==
  LET g == t[1]
      struct == <<foRef[t], ShardOf(foNode[t])>>
  IN
  /\ pc[t] = "cas"
  /\ IF struct \in latched[g]
     THEN /\ pc' = [pc EXCEPT ![t] = afterFailover(t)]
          /\ foNode' = [foNode EXCEPT ![t] = Nil]
          /\ foRef' = [foRef EXCEPT ![t] = 0]
          /\ UNCHANGED latched
     ELSE /\ latched' = [latched EXCEPT ![g] = latched[g] \cup {struct}]
          /\ pc' = [pc EXCEPT ![t] = "mutex"]
          /\ UNCHANGED <<foNode, foRef>>
  /\ UNCHANGED <<storeNodes, promoted, nch, view, refreshing, mutexHolder,
                 foChosen, foReply, foErr, foExit, foSnap, sent, deaths, calls>>

\* mutexRun("failover", ...) gets the mutex and starts the callback
FoMutexAcquire(t) ==
  /\ pc[t] = "mutex"
  /\ failoverEnter(mutexHolder)
  /\ mutexHolder' = t
  /\ pc' = [pc EXCEPT ![t] = "getmaster"]
  /\ UNCHANGED <<storeNodes, promoted, nch, view, refreshing, latched, foNode, foRef,
                 foChosen, foReply, foErr, foExit, foSnap, sent, deaths, calls>>

\* mutexRun fails to get the mutex (no session, store unreachable): the callback is not run
FoMutexFail(t) ==
  /\ pc[t] = "mutex"
  /\ foErr' = [foErr EXCEPT ![t] = "mutex"]
  /\ pc' = [pc EXCEPT ![t] = "unlatch"]
  /\ UNCHANGED <<storeNodes, promoted, nch, view, refreshing, latched, mutexHolder, foNode,
                 foRef, foChosen, foReply, foExit, foSnap, sent, deaths, calls>>

\* mutation of FailoverIfNeeded: the test of the shard's master is left out
masterIsOther_Never(master, node) == FALSE

\* if master != nil && master.Addr() != node.Addr()
masterIsOther(master, node) == master # Nil /\ master # node

\* master := GetMaster(node.ShardID); master != nil && master.Addr() != node.Addr(): return nil
FoGetMaster(t) ==
  LET g == t[1]
      master == GetMaster(view[g], ShardOf(foNode[t]))
  IN
  /\ pc[t] = "getmaster"
  /\ IF masterIsOther(master, foNode[t])
     THEN /\ pc' = [pc EXCEPT ![t] = "cbret"]
          /\ foExit' = [foExit EXCEPT ![t] = "already"]
     ELSE /\ pc' = [pc EXCEPT ![t] = "getslaves"]
          /\ UNCHANGED foExit
  /\ UNCHANGED <<storeNodes, promoted, nch, view, refreshing, latched, mutexHolder, foNode,
                 foRef, foChosen, foReply, foErr, foSnap, sent, deaths, calls>>

\* slaves := GetSlaves(node.ShardID); none: error; else choose
FoGetSlaves(t) ==
  LET g == t[1]
      slaves == GetSlaves(view[g], ShardOf(foNode[t]))
  IN
  /\ pc[t] = "getslaves"
  /\ IF Len(slaves) = 0
     THEN /\ pc' = [pc EXCEPT ![t] = "cbret"]
          /\ foErr' = [foErr EXCEPT ![t] = "noslave"]
          /\ foExit' = [foExit EXCEPT ![t] = "noslave"]
          /\ UNCHANGED foChosen
     ELSE /\ pc' = [pc EXCEPT ![t] = "connect"]
          /\ foChosen' = [foChosen EXCEPT ![t] = chooseSlave(slaves, foNode[t])]
          /\ UNCHANGED <<foErr, foExit>>
  /\ UNCHANGED <<storeNodes, promoted, nch, view, refreshing, latched, mutexHolder, foNode,
                 foRef, foReply, foSnap, sent, deaths, calls>>

\* tcp.Connect(chosen.Addr()) and slaveConn.WriteMsg(buf[:n]); the slave that gets the
\* command answers Succeed (and is promoted), answers Failed, or does not answer
FoConnectWrite(t) ==
  /\ pc[t] = "connect"
  /\ \/ \E e \in {"connect", "write"} :
          /\ pc' = [pc EXCEPT ![t] = "cbret"]
          /\ foErr' = [foErr EXCEPT ![t] = e]
          /\ foExit' = [foExit EXCEPT ![t] = e]
          /\ UNCHANGED <<sent, promoted, foReply>>
     \/ /\ sent' = [sent EXCEPT ![t] = Append(sent[t], [dead |-> foNode[t], to |-> foChosen[t]])]
        /\ \E r \in {"succeed", "failed", "none"} :
             /\ foReply' = [foReply EXCEPT ![t] = r]
             /\ promoted' \in (IF r = "succeed" THEN {promoted \cup {foChosen[t]}}
                               ELSE IF r = "failed" THEN {promoted}
                               ELSE {promoted, promoted \cup {foChosen[t]}})
        /\ pc' = [pc EXCEPT ![t] = "wait"]
        /\ UNCHANGED <<foErr, foExit>>
  /\ UNCHANGED <<storeNodes, nch, view, refreshing, latched, mutexHolder, foNode, foRef,
                 foChosen, foSnap, deaths, calls>>

\* select { case <-c: case <-time.After(15 * time.Second): }
FoAwaitReply(t) ==
  /\ pc[t] = "wait"
  /\ \/ /\ foReply[t] # "none"        \* the reply is read in time
        /\ foExit' = [foExit EXCEPT ![t] = "reply"]
        /\ foErr' = [foErr EXCEPT ![t] = IF foReply[t] = "succeed" THEN "nil" ELSE "failed"]
     \/ /\ foReply[t] = "none"        \* ReadMsg fails: the channel is closed, err stays
        /\ foExit' = [foExit EXCEPT ![t] = "unreadable"]
        /\ UNCHANGED foErr
     \/ /\ foExit' = [foExit EXCEPT ![t] = "timeout"]
        /\ UNCHANGED foErr
  /\ pc' = [pc EXCEPT ![t] = "fo_refresh"]
  /\ UNCHANGED <<storeNodes, promoted, nch, view, refreshing, latched, mutexHolder, foNode,
                 foRef, foChosen, foReply, foSnap, sent, deaths, calls>>

\* globalMeta.RefreshCluster() inside the callback
FoRefreshStart(t) ==
  /\ pc[t] = "fo_refresh"
  /\ RefreshStart(t, "fo_publish", "cbret")
  /\ UNCHANGED <<storeNodes, promoted, nch, view, latched, mutexHolder, foNode, foRef,
                 foChosen, foReply, foErr, foExit, sent, deaths, calls>>

FoRefreshPublish(t) ==
  /\ pc[t] = "fo_publish"
  /\ RefreshPublish(t, "cbret")
  /\ UNCHANGED <<storeNodes, promoted, nch, latched, mutexHolder, foNode, foRef,
                 foChosen, foReply, foErr, foExit, sent, deaths, calls>>

\* the callback returns: mutexRun releases the mutex
FoCallbackReturn(t) ==
  /\ pc[t] = "cbret"
  /\ mutexHolder' = IF mutexHolder = t THEN NoThread ELSE mutexHolder
  /\ pc' = [pc EXCEPT ![t] = "unlatch"]
  /\ UNCHANGED <<storeNodes, promoted, nch, view, refreshing, latched, foNode, foRef,
                 foChosen, foReply, foErr, foExit, foSnap, sent, deaths, calls>>

\* mutation of FailoverIfNeeded: the deferred reset of the latch is left out
storeFailovering0_Forgotten(l, struct) == l

\* atomic.StoreUint32(&shard.failovering, 0)
storeFailovering0(l, struct) == l \ {struct}

\* defer atomic.StoreUint32(&shard.failovering, 0): on the struct GetShard returned
FoUnlatch(t) ==
  LET g == t[1] IN
  /\ pc[t] = "unlatch"
  /\ latched' = [latched EXCEPT ![g] = storeFailovering0(latched[g], <<foRef[t], ShardOf(foNode[t])>>)]
  /\ pc' = [pc EXCEPT ![t] = afterFailover(t)]
  /\ foChosen' = [foChosen EXCEPT ![t] = Nil]
  /\ foReply' = [foReply EXCEPT ![t] = "none"]
  /\ foRef' = [foRef EXCEPT ![t] = 0]
  /\ foErr' = [foErr EXCEPT ![t] = "nil"]
  /\ foExit' = [foExit EXCEPT ![t] = "none"]
  /\ foNode' = [foNode EXCEPT ![t] = Nil]
  /\ UNCHANGED <<storeNodes, promoted, nch, view, refreshing, mutexHolder,
                 foSnap, sent, deaths, calls>>

-----------------------------------------------------------------------------
(* meta: route cache (getShardIDs) and the route-key watcher.  One metric,   *)
(* K gateways, each with its own meta.routeInfos and watcher goroutine; the  *)
(* callers of getShardIDs are further goroutines of the gateways.            *)

MaxRtCalls == 2      \* getShardIDs calls over the goroutines of K gateways
MaxLocalCalls == 3   \* getShardIDs calls over the goroutines of one gateway
MaxExpiries == 1     \* lease expiries of route keys
ShardGroupCap == 2   \* vars.Cfg.Gateway.Route.ShardGroupCap

Callers == {<<1, 1>>, <<1, 2>>, <<2, 1>>}
Metric == "cpu"
Days == {1, 2}
RtShardIDs == {"A", "B"}
ObjIds == 1..3

\* a string is a sequence of atoms, "/" is the atom Slash
Slash == "/"
DayStr == <<"1", "2">>

\* strconv.FormatUint(day, 10)
FormatUint(d) == <<DayStr[d]>>

\* strconv.ParseUint(s, 10, 0)
ParseUint(s) ==
  IF Len(s) = 1 /\ (\E d \in Days : DayStr[d] = s[1])
  THEN [ok |-> TRUE, v |-> CHOOSE d \in Days : DayStr[d] = s[1]]
  ELSE [ok |-> FALSE, v |-> 0]

\* strings.Split(s, "/")
RECURSIVE Split(_)
Split(s) ==
  IF \A i \in 1..Len(s) : s[i] # Slash THEN <<s>>
  ELSE LET i == CHOOSE k \in 1..Len(s) : s[k] = Slash /\ \A j \in 1..(k - 1) : s[j] # Slash
       IN  <<SubSeq(s, 1, i - 1)>> \o Split(SubSeq(s, i + 1, Len(s)))

\* strings.TrimPrefix(s, p)
TrimPrefix(s, p) ==
  IF Len(p) <= Len(s) /\ SubSeq(s, 1, Len(p)) = p THEN SubSeq(s, Len(p) + 1, Len(s)) ELSE s

\* routeInfoPrefix(): "nested" is the key layout {ns}/route/{metric}/{day};
\* "flat" is a prefix without "/", the form the watcher's parser splits
Layouts == {"nested", "flat"}
routeInfoPrefix(layout) ==
  IF layout = "nested" THEN <<"ns", Slash, "route", Slash>> ELSE <<"route:">>

\* key := routeInfoPrefix() + metricName + "/" + strconv.FormatUint(day, 10)
routeKey(layout, m, d) == routeInfoPrefix(layout) \o <<m>> \o <<Slash>> \o FormatUint(d)

\* the watcher's parse of a route key: strArray[0] without the prefix and strArray[1]
parseRouteKey(layout, key) ==
  LET strArray == Split(key)
  IN  [metricName |-> TrimPrefix(strArray[1], routeInfoPrefix(layout)),
       day |-> ParseUint(strArray[2])]

NoEntry == [found |-> FALSE, group |-> <<>>]
Entry(grp) == [found |-> TRUE, group |-> grp]

\* NewRouteInfo(metricName)
FreshRouteInfo == [byDay |-> [d \in Days |-> NoEntry], Timeline |-> 0, lock |-> NoThread]

\* RouteInfo.Get, RouteInfo.Put (timeline: the most recently written day), RouteInfo.Delete
RouteInfo_Get(r, d) == r.byDay[d]
RouteInfo_Put(r, d, grp) == [r EXCEPT !.byDay[d] = Entry(grp), !.Timeline = d]
RouteInfo_Delete(r, d) == [r EXCEPT !.byDay[d] = NoEntry]

\* the RouteInfo objects of gateway g that are referenced by the map or by a caller
riInUse(g, map, refs) == ({map[g]} \cup { refs[t] : t \in { u \in Callers : u[1] = g } }) \ {0}

\* NewRouteInfo: an object nobody references
newRouteInfo(g) == CHOOSE n \in ObjIds :
                     /\ n \notin riInUse(g, routeInfos, rRef)
                     /\ \A k \in ObjIds : k < n => k \in riInUse(g, routeInfos, rRef)

\* getRouteInfoFromCache: Load, or LoadOrStore of a new RouteInfo
getRouteInfoFromCache(g) == IF routeInfos[g] # 0 THEN routeInfos[g] ELSE newRouteInfo(g)

\* objects nobody references any more are garbage: they read as new ones
collect(g, objs, map, refs) ==
  [id \in ObjIds |-> IF id \in riInUse(g, map, refs) THEN objs[id] ELSE FreshRouteInfo]

\* GetMasters(): the masters of the cluster, in an order the store does not fix
MasterLists ==
  UNION { { s \in [1..n -> RtShardIDs] : \A i, j \in 1..n : i # j => s[i] # s[j] }
          : n \in 0..Cardinality(RtShardIDs) }

\* mutation of getShardIDsFromEtcd: the test of len(masters) is dropped
notEnoughMasters_Never(masters) == FALSE

\* if len(masters) < vars.Cfg.Gateway.Route.ShardGroupCap
notEnoughMasters(masters) == Len(masters) < ShardGroupCap

\* mutation of getShardIDsFromEtcd: the loop takes the last masters, not the first
firstShards_Last(masters) ==
  SubSeq(masters, IF Len(masters) < ShardGroupCap THEN 1 ELSE Len(masters) - ShardGroupCap + 1,
         Len(masters))

\* for i := 0; i < ShardGroupCap && i < len(masters); i++ { append(masters[i].ShardID) }
firstShards(masters) ==
  SubSeq(masters, 1, IF Len(masters) < ShardGroupCap THEN Len(masters) ELSE ShardGroupCap)

RtBroadcast(q, ev) == [g \in Gateways |-> Append(q[g], ev)]

NoResult == [valid |-> FALSE, day |-> 0, found |-> FALSE, group |-> <<>>, err |-> "nil"]

RtInitWith(layout) ==
  /\ rtLayout = layout
  /\ kv = [d \in Days |-> NoEntry]
  /\ rch = [g \in Gateways |-> <<>>]
  /\ routeInfos = [g \in Gateways |-> 0]
  /\ ri = [g \in Gateways |-> [id \in ObjIds |-> FreshRouteInfo]]
  /\ rpc = [t \in Callers |-> "idle"]
  /\ rDay = [t \in Callers |-> 0]
  /\ rRef = [t \in Callers |-> 0]
  /\ rGroup = [t \in Callers |-> NoEntry]
  /\ rErr = [t \in Callers |-> "nil"]
  /\ rtResult = [t \in Callers |-> NoResult]
  /\ rtCalls = 0
  /\ putCount = [g \in Gateways |-> [d \in Days |-> 0]]
  /\ expired = <<>>

RtInit == \E layout \in Layouts : RtInitWith(layout)

\* a goroutine of gateway t[1] calls getShardIDs(Metric, d)
RtCall(t, d, budget) ==
  /\ rpc[t] = "idle"
  /\ rtCalls < budget
  /\ rpc' = [rpc EXCEPT ![t] = "check1"]
  /\ rDay' = [rDay EXCEPT ![t] = d]
  /\ rtCalls' = rtCalls + 1
  /\ UNCHANGED <<rtLayout, kv, rch, routeInfos, ri, rRef, rGroup, rErr, rtResult,
                 putCount, expired>>

\* getShardIDs: the first getShardIDsFromCache; a hit returns at once
RtCheck1(t) ==
  LET g == t[1]
      id == getRouteInfoFromCache(g)
      e == RouteInfo_Get(ri[g][id], rDay[t])
  IN  /\ rpc[t] = "check1"
      /\ routeInfos' = [routeInfos EXCEPT ![g] = id]
      /\ IF e.found
         THEN /\ rtResult' = [rtResult EXCEPT ![t] =
                   [valid |-> TRUE, day |-> rDay[t], found |-> TRUE, group |-> e.group, err |-> "nil"]]
              /\ rpc' = [rpc EXCEPT ![t] = "idle"]
              /\ rDay' = [rDay EXCEPT ![t] = 0]
         ELSE /\ rpc' = [rpc EXCEPT ![t] = "getri"]
              /\ UNCHANGED <<rtResult, rDay>>
      /\ UNCHANGED <<rtLayout, kv, rch, ri, rRef, rGroup, rErr, rtCalls, putCount, expired>>

\* routeInfo := m.getRouteInfoFromCache(metricName)
RtGetRouteInfo(t) ==
  LET g == t[1]
      id == getRouteInfoFromCache(g)
  IN  /\ rpc[t] = "getri"
      /\ routeInfos' = [routeInfos EXCEPT ![g] = id]
      /\ rRef' = [rRef EXCEPT ![t] = id]
      /\ rpc' = [rpc EXCEPT ![t] = "lock"]
      /\ UNCHANGED <<rtLayout, kv, rch, ri, rDay, rGroup, rErr, rtResult, rtCalls,
                     putCount, expired>>

\* routeInfo.Lock()
RtLock(t) ==
  LET g == t[1] IN
  /\ rpc[t] = "lock"
  /\ ri[g][rRef[t]].lock = NoThread
  /\ ri' = [ri EXCEPT ![g][rRef[t]].lock = t]
  /\ rpc' = [rpc EXCEPT ![t] = "check2"]
  /\ UNCHANGED <<rtLayout, kv, rch, routeInfos, rDay, rRef, rGroup, rErr, rtResult,
                 rtCalls, putCount, expired>>

\* the second getShardIDsFromCache, under the lock
RtCheck2(t) ==
  LET g == t[1]
      id == getRouteInfoFromCache(g)
      e == RouteInfo_Get(ri[g][id], rDay[t])
  IN  /\ rpc[t] = "check2"
      /\ routeInfos' = [routeInfos EXCEPT ![g] = id]
      /\ IF e.found
         THEN /\ rGroup' = [rGroup EXCEPT ![t] = e]
              /\ rpc' = [rpc EXCEPT ![t] = "unlock"]
         ELSE /\ rpc' = [rpc EXCEPT ![t] = "etcdget"]
              /\ UNCHANGED rGroup
      /\ UNCHANGED <<rtLayout, kv, rch, ri, rDay, rRef, rErr, rtResult, rtCalls,
                     putCount, expired>>

\* getShardIDsFromEtcd: etcdGet of the sgroute key and of the route key
RtEtcdGet(t) ==
  /\ rpc[t] = "etcdget"
  /\ \E storeErr \in BOOLEAN :
       IF storeErr
       THEN /\ rErr' = [rErr EXCEPT ![t] = "store"]
            /\ rpc' = [rpc EXCEPT ![t] = "unlock"]
            /\ UNCHANGED rGroup
       ELSE IF kv[rDay[t]].found
       THEN /\ rGroup' = [rGroup EXCEPT ![t] = kv[rDay[t]]]
            /\ rpc' = [rpc EXCEPT ![t] = "cacheput"]
            /\ UNCHANGED rErr
       ELSE /\ rpc' = [rpc EXCEPT ![t] = "alloc"]
            /\ UNCHANGED <<rErr, rGroup>>
  /\ UNCHANGED <<rtLayout, kv, rch, routeInfos, ri, rDay, rRef, rtResult, rtCalls,
                 putCount, expired>>

\* getShardIDsFromEtcd after ErrKeyNotFound: GetMasters, the test of their number,
\* the first ShardGroupCap of them, getEtcdLease, etcdPut
RtAllocate(t) ==
  LET g == t[1]
      d == rDay[t]
  IN  /\ rpc[t] = "alloc"
      /\ \E masters \in MasterLists, storeErr \in BOOLEAN :
           LET grp == firstShards(masters)
               \* a failure of GetMasters, getEtcdLease or etcdPut returns before any write
               err == IF notEnoughMasters(masters) THEN "not enough shards"
                      ELSE IF storeErr THEN "store" ELSE "none"
           IN  IF err # "none"
               THEN /\ rErr' = [rErr EXCEPT ![t] = err]
                    /\ rpc' = [rpc EXCEPT ![t] = "unlock"]
                    /\ UNCHANGED <<kv, rch, rGroup, putCount>>
               ELSE /\ kv' = [kv EXCEPT ![d] = Entry(grp)]
                    /\ rch' = RtBroadcast(rch, [type |-> "PUT", key |-> routeKey(rtLayout, Metric, d),
                                                value |-> grp])
                    /\ putCount' = [putCount EXCEPT ![g][d] = @ + 1]
                    /\ rGroup' = [rGroup EXCEPT ![t] = Entry(grp)]
                    /\ rpc' = [rpc EXCEPT ![t] = "cacheput"]
                    /\ UNCHANGED rErr
      /\ UNCHANGED <<rtLayout, routeInfos, ri, rDay, rRef, rtResult, rtCalls, expired>>

\* getShardIDs, err == nil: routeInfo.Put(day, shardGroup) on the locked RouteInfo
RtCachePut(t) ==
  LET g == t[1] IN
  /\ rpc[t] = "cacheput"
  /\ ri' = [ri EXCEPT ![g][rRef[t]] = RouteInfo_Put(@, rDay[t], rGroup[t].group)]
  /\ rpc' = [rpc EXCEPT ![t] = "unlock"]
  /\ UNCHANGED <<rtLayout, kv, rch, routeInfos, rDay, rRef, rGroup, rErr, rtResult,
                 rtCalls, putCount, expired>>

\* routeInfo.Unlock(); return shardGroup, shardGrpRouteK, err
RtUnlockReturn(t) ==
  LET g == t[1]
      refs == [rRef EXCEPT ![t] = 0]
      unlocked == [ri[g] EXCEPT ![rRef[t]].lock = NoThread]
  IN  /\ rpc[t] = "unlock"
      /\ ri' = [ri EXCEPT ![g] = collect(g, unlocked, routeInfos, refs)]
      /\ rRef' = refs
      /\ rtResult' = [rtResult EXCEPT ![t] =
            [valid |-> TRUE, day |-> rDay[t], found |-> rGroup[t].found,
             group |-> rGroup[t].group, err |-> rErr[t]]]
      /\ rGroup' = [rGroup EXCEPT ![t] = NoEntry]
      /\ rErr' = [rErr EXCEPT ![t] = "nil"]
      /\ rDay' = [rDay EXCEPT ![t] = 0]
      /\ rpc' = [rpc EXCEPT ![t] = "idle"]
      /\ UNCHANGED <<rtLayout, kv, rch, routeInfos, rtCalls, putCount, expired>>

\* watch, case wresp = <-rch: one event of the route prefix
RtRouteEvent(g) ==
  /\ rch[g] # <<>>
  /\ rch' = [rch EXCEPT ![g] = Tail(@)]
  /\ LET ev == Head(rch[g])
         parsed == parseRouteKey(rtLayout, ev.key)
         day == parsed.day.v
         id == getRouteInfoFromCache(g)
     IN  IF ~parsed.day.ok \/ parsed.metricName # <<Metric>>
         THEN UNCHANGED <<routeInfos, ri>>
         ELSE IF ev.type = "DELETE"
         THEN LET r == RouteInfo_Delete(ri[g][id], day)
                  map == [routeInfos EXCEPT ![g] = IF day = r.Timeline THEN 0 ELSE id]
              IN  /\ routeInfos' = map
                  /\ ri' = [ri EXCEPT ![g] = collect(g, [ri[g] EXCEPT ![id] = r], map, rRef)]
         ELSE /\ routeInfos' = [routeInfos EXCEPT ![g] = id]
              /\ ri' = [ri EXCEPT ![g][id] = RouteInfo_Put(@, day, ev.value)]
  /\ UNCHANGED <<rtLayout, kv, rpc, rDay, rRef, rGroup, rErr, rtResult, rtCalls,
                 putCount, expired>>

\* the lease of a route key expires: the store deletes the key
RtLeaseExpire(d) ==
  /\ kv[d].found
  /\ Len(expired) < MaxExpiries
  /\ kv' = [kv EXCEPT ![d] = NoEntry]
  /\ rch' = RtBroadcast(rch, [type |-> "DELETE", key |-> routeKey(rtLayout, Metric, d),
                              value |-> <<>>])
  /\ expired' = Append(expired, d)
  /\ putCount' = [g \in Gateways |-> [putCount[g] EXCEPT ![d] = 0]]
  /\ UNCHANGED <<rtLayout, routeInfos, ri, rpc, rDay, rRef, rGroup, rErr, rtResult, rtCalls>>

-----------------------------------------------------------------------------
(* mergeQuerier.Select: one goroutine per querier runs the per-shard Select; *)
(* the goroutines finish in any order, Select returns after wg.Wait().       *)

MaxQueriers == 3     \* queriers of a mergeQuerier (it has two at least)

\* what the Select of one shard returns: an error, or a series set (its label sets)
FqOutcomes == {[err |-> TRUE, set |-> <<>>]} \cup { [err |-> FALSE, set |-> s] : s \in AscSeqsTo(2) }

NilSet == [nil |-> TRUE, set |-> <<>>]
FqNoRet == [returned |-> FALSE, nil |-> TRUE, sets |-> <<>>, err |-> <<>>]

\* mutation of mergeQuerier.Select: multiErr is not looked at
fqHasErr_Never(multiErr) == FALSE

\* if multiErr != nil
fqHasErr(multiErr) == multiErr # <<>>

FqInit ==
  /\ fqQueriers \in { q \in SeqsUpTo(FqOutcomes, MaxQueriers) : Len(q) >= 2 }
  /\ fqRunning = 1..Len(fqQueriers)
  /\ fqMultiErr = <<>>
  /\ fqSeriesSets = [i \in 1..Len(fqQueriers) |-> NilSet]
  /\ fqRet = FqNoRet

FqIdle ==
  /\ fqQueriers = <<>> /\ fqRunning = {} /\ fqMultiErr = <<>> /\ fqSeriesSets = <<>>
  /\ fqRet = FqNoRet

\* go func(idx, q): the Select of shard idx returns; its error is appended to
\* multiErr under mtx, or its set is stored in seriesSets[idx]
FqSubQuery(idx) ==
  /\ idx \in fqRunning
  /\ fqRunning' = fqRunning \ {idx}
  /\ IF fqQueriers[idx].err
     THEN /\ fqMultiErr' = Append(fqMultiErr, idx)
          /\ UNCHANGED fqSeriesSets
     ELSE /\ fqSeriesSets' = [fqSeriesSets EXCEPT ![idx] = [nil |-> FALSE, set |-> fqQueriers[idx].set]]
          /\ UNCHANGED fqMultiErr
  /\ UNCHANGED <<fqQueriers, fqRet>>

\* after wg.Wait(): return nil, multiErr, or NewMergeSeriesSet(seriesSets), nil
FqReturn ==
  /\ fqRunning = {}
  /\ ~fqRet.returned
  /\ fqRet' = IF fqHasErr(fqMultiErr)
              THEN [returned |-> TRUE, nil |-> TRUE, sets |-> <<>>, err |-> fqMultiErr]
              ELSE [returned |-> TRUE, nil |-> FALSE, sets |-> fqSeriesSets, err |-> <<>>]
  /\ UNCHANGED <<fqQueriers, fqRunning, fqMultiErr, fqSeriesSets>>

-----------------------------------------------------------------------------
(* meta: the cluster view.  RefreshCluster builds a new map from the node    *)
(* enumeration and publishes it by StorePointer; readers load the pointer.   *)
(* Maps are objects: rvMaps[id] is the content of map id, rvView the pointer.*)

MaxNodeChanges == 1  \* changes of node keys in the store

RvAddrs == {"n1", "n2", "n3"}
RvAddrOrder == <<"n1", "n2", "n3">>
RvShardIDs == {"X", "Y"}
Refreshers == {1, 2}
Readers == {1}
MapIds == 1..5

\* the Node records a node key can hold
NodeRecs(a) == [addr : {a}, ShardID : RvShardIDs, MasterIP : {"", "ip"}, MasterPort : {"", "port"}]
NoNode == [addr |-> "", ShardID |-> "", MasterIP |-> "", MasterPort |-> ""]
NodeStates(a) == NodeRecs(a) \cup {NoNode}
NodeRec(a, s, ip, port) == [addr |-> a, ShardID |-> s, MasterIP |-> ip, MasterPort |-> port]

\* GetNodes(false): the registered nodes, in key order
RvGetNodes(st) ==
  LET present == SelectSeq(RvAddrOrder, LAMBDA a : st[a] # NoNode)
  IN  [i \in 1..Len(present) |-> st[present[i]]]

\* mutation of RefreshCluster: a node counts as master when one of the two is empty
Node_IsMaster_Either(n) == n.MasterIP = "" \/ n.MasterPort = ""

\* n.MasterIP == "" && n.MasterPort == ""
Node_IsMaster(n) == n.MasterIP = "" /\ n.MasterPort = ""

EmptyShard == [found |-> FALSE, Master |-> NoNode, Slaves |-> <<>>]
EmptyMap == [s \in RvShardIDs |-> EmptyShard]

\* one iteration of the loop of RefreshCluster over the enumerated nodes
refreshLoopStep(shards, n) ==
  LET shard == IF shards[n.ShardID].found THEN shards[n.ShardID]
               ELSE [found |-> TRUE, Master |-> NoNode, Slaves |-> <<>>]
  IN  [shards EXCEPT ![n.ShardID] =
         IF Node_IsMaster(n) THEN [shard EXCEPT !.Master = n]
         ELSE [shard EXCEPT !.Slaves = Append(shard.Slaves, n)]]

\* the whole loop
RECURSIVE refreshLoop(_, _)
refreshLoop(shards, nodes) ==
  IF nodes = <<>> THEN shards ELSE refreshLoop(refreshLoopStep(shards, Head(nodes)), Tail(nodes))

\* the map objects referenced by the pointer, a refresh in progress or a reader
mapsInUse(ptr, locals, loaded) ==
  ({ptr} \cup { locals[t] : t \in Refreshers } \cup { loaded[r] : r \in Readers }) \ {0}

\* mutation of RefreshCluster: the loop fills the published map in place
refreshTarget_InPlace(ptr, locals, loaded) == ptr

\* shards := make(map[string]*Shard): a map nobody references
refreshTarget(ptr, locals, loaded) ==
  CHOOSE n \in MapIds :
    /\ n \notin mapsInUse(ptr, locals, loaded)
    /\ \A k \in MapIds : k < n => k \in mapsInUse(ptr, locals, loaded)

NoMapInfo == [nodes |-> <<>>, version |-> 0, complete |-> FALSE]

\* maps nobody references are garbage
rvCollect(objs, fresh, ptr, locals, loaded) ==
  [id \in MapIds |-> IF id \in mapsInUse(ptr, locals, loaded) THEN objs[id] ELSE fresh]

RvInitWith(st) ==
  /\ rvStore = st
  /\ rvVersion = 0
  /\ rvView = 1
  /\ rvMaps = [id \in MapIds |-> IF id = 1 THEN refreshLoop(EmptyMap, RvGetNodes(st)) ELSE EmptyMap]
  /\ rvMapInfo = [id \in MapIds |->
        IF id = 1 THEN [nodes |-> RvGetNodes(st), version |-> 0, complete |-> TRUE] ELSE NoMapInfo]
  /\ rvRefreshing = 0
  /\ rvPc = [t \in Refreshers |-> "idle"]
  /\ rvLocal = [t \in Refreshers |-> 0]
  /\ rvNodes = [t \in Refreshers |-> <<>>]
  /\ rvStart = [t \in Refreshers |-> 0]
  /\ rvReturned = 0
  /\ rdMap = [r \in Readers |-> 0]
  /\ rdSeen = [r \in Readers |-> EmptyMap]

\* a cluster of one shard with master and slave and one shard with a master
RvStore0 == [a \in RvAddrs |->
  IF a = "n1" THEN NodeRec("n1", "X", "", "")
  ELSE IF a = "n2" THEN NodeRec("n2", "X", "ip", "port")
  ELSE NodeRec("n3", "Y", "", "")]

RvIdle == RvInitWith(RvStore0)

\* a node key is put, with whatever Node record, or deleted
RvNodeChange(a, rec) ==
  /\ rvVersion < MaxNodeChanges
  /\ rec # rvStore[a]
  /\ rvStore' = [rvStore EXCEPT ![a] = rec]
  /\ rvVersion' = rvVersion + 1
  /\ UNCHANGED <<rvView, rvMaps, rvMapInfo, rvRefreshing, rvPc, rvLocal, rvNodes, rvStart,
                 rvReturned, rdMap, rdSeen>>

\* RefreshCluster: the CompareAndSwap of refreshing; the loser returns nil
RvCas(t) ==
  /\ rvPc[t] = "idle"
  /\ IF rvRefreshing = 0
     THEN /\ rvRefreshing' = 1
          /\ rvPc' = [rvPc EXCEPT ![t] = "getnodes"]
          /\ rvStart' = [rvStart EXCEPT ![t] = rvVersion]
          /\ UNCHANGED rvReturned
     ELSE /\ rvReturned' = IF rvVersion > rvReturned THEN rvVersion ELSE rvReturned
          /\ UNCHANGED <<rvRefreshing, rvPc, rvStart>>
  /\ UNCHANGED <<rvStore, rvVersion, rvView, rvMaps, rvMapInfo, rvLocal, rvNodes, rdMap, rdSeen>>

\* mutation of RefreshCluster: the flag is reset before return nil only
refreshingOnReturn_NilOnly(flag, failed) == IF failed THEN flag ELSE 0

\* defer atomic.StoreUint32(&m.refreshing, 0): runs on every return after the CompareAndSwap
refreshingOnReturn(flag, failed) == 0

\* RefreshCluster: shards := make(map), GetNodes; on error the deferred reset and return err
RvGetNodesStep(t, ok) ==
  /\ rvPc[t] = "getnodes"
  /\ IF ~ok
       THEN /\ rvRefreshing' = refreshingOnReturn(rvRefreshing, TRUE)
            /\ rvPc' = [rvPc EXCEPT ![t] = "idle"]
            /\ rvStart' = [rvStart EXCEPT ![t] = 0]
            /\ UNCHANGED <<rvMaps, rvMapInfo, rvLocal, rvNodes>>
       ELSE LET target == refreshTarget(rvView, rvLocal, rdMap)
                nodes == RvGetNodes(rvStore)
            IN  /\ rvLocal' = [rvLocal EXCEPT ![t] = target]
                /\ rvMaps' = [rvMaps EXCEPT ![target] = EmptyMap]
                /\ rvMapInfo' = [rvMapInfo EXCEPT ![target] =
                      [nodes |-> nodes, version |-> rvVersion, complete |-> nodes = <<>>]]
                /\ rvNodes' = [rvNodes EXCEPT ![t] = nodes]
                /\ rvPc' = [rvPc EXCEPT ![t] = IF nodes = <<>> THEN "publish" ELSE "loop"]
                /\ UNCHANGED <<rvRefreshing, rvStart>>
  /\ UNCHANGED <<rvStore, rvVersion, rvView, rvReturned, rdMap, rdSeen>>

\* GetNodes succeeds or fails
RvEnumerate(t) == \E ok \in BOOLEAN : RvGetNodesStep(t, ok)

\* RefreshCluster: one iteration of the loop over the nodes
RvLoop(t) ==
  /\ rvPc[t] = "loop"
  /\ rvMaps' = [rvMaps EXCEPT ![rvLocal[t]] = refreshLoopStep(@, Head(rvNodes[t]))]
  /\ rvNodes' = [rvNodes EXCEPT ![t] = Tail(@)]
  /\ rvMapInfo' = [rvMapInfo EXCEPT ![rvLocal[t]].complete = Tail(rvNodes[t]) = <<>>]
  /\ rvPc' = [rvPc EXCEPT ![t] = IF Tail(rvNodes[t]) = <<>> THEN "publish" ELSE "loop"]
  /\ UNCHANGED <<rvStore, rvVersion, rvView, rvRefreshing, rvLocal, rvStart, rvReturned,
                 rdMap, rdSeen>>

\* atomic.StorePointer(&m.shards, &shards)
RvPublish(t) ==
  /\ rvPc[t] = "publish"
  /\ rvView' = rvLocal[t]
  /\ rvMaps' = rvCollect(rvMaps, EmptyMap, rvLocal[t], rvLocal, rdMap)
  /\ rvMapInfo' = rvCollect(rvMapInfo, NoMapInfo, rvLocal[t], rvLocal, rdMap)
  /\ rvPc' = [rvPc EXCEPT ![t] = "return"]
  /\ UNCHANGED <<rvStore, rvVersion, rvRefreshing, rvLocal, rvNodes, rvStart, rvReturned,
                 rdMap, rdSeen>>

\* the deferred atomic.StoreUint32(&m.refreshing, 0); return nil
RvReturn(t) ==
  LET locals == [rvLocal EXCEPT ![t] = 0] IN
  /\ rvPc[t] = "return"
  /\ rvRefreshing' = refreshingOnReturn(rvRefreshing, FALSE)
  /\ rvReturned' = IF rvStart[t] > rvReturned THEN rvStart[t] ELSE rvReturned
  /\ rvStart' = [rvStart EXCEPT ![t] = 0]
  /\ rvLocal' = locals
  /\ rvMaps' = rvCollect(rvMaps, EmptyMap, rvView, locals, rdMap)
  /\ rvMapInfo' = rvCollect(rvMapInfo, NoMapInfo, rvView, locals, rdMap)
  /\ rvPc' = [rvPc EXCEPT ![t] = "idle"]
  /\ UNCHANGED <<rvStore, rvVersion, rvView, rvNodes, rdMap, rdSeen>>

\* GetShard, AllShards, GetMaster, GetSlaves: atomic.LoadPointer(&m.shards)
RdLoad(r) ==
  LET loaded == [rdMap EXCEPT ![r] = rvView] IN
  /\ rdMap' = loaded
  /\ rdSeen' = [rdSeen EXCEPT ![r] = rvMaps[rvView]]
  /\ rvMaps' = rvCollect(rvMaps, EmptyMap, rvView, rvLocal, loaded)
  /\ rvMapInfo' = rvCollect(rvMapInfo, NoMapInfo, rvView, rvLocal, loaded)
  /\ UNCHANGED <<rvStore, rvVersion, rvView, rvRefreshing, rvPc, rvLocal, rvNodes, rvStart,
                 rvReturned>>

-----------------------------------------------------------------------------
(* FailoverIfNeeded: the choice of the slave to promote, on its own.  The     *)
(* slave list and the dead node are drawn from the nodes of two idcs.         *)

MaxSlaves == 3   \* length of the slave list

ChNodes == {"m", "s1", "s2", "s3"}

\* the slave lists: no node twice
ChSlaveLists ==
  { sl \in SeqsUpTo(ChNodes, MaxSlaves) :
      /\ sl # <<>>
      /\ \A i, j \in 1..Len(sl) : i # j => sl[i] # sl[j] }

ChInit ==
  /\ chSlaves \in ChSlaveLists
  /\ chNode \in ChNodes
  /\ chChosen = Nil

ChIdle == chSlaves = <<>> /\ chNode = Nil /\ chChosen = Nil

\* var chosen *Node; the loop over slaves; if chosen == nil { chosen = slaves[0] }
ChChoose ==
  /\ chChosen = Nil
  /\ chChosen' = chooseSlave(chSlaves, chNode)
  /\ UNCHANGED <<chSlaves, chNode>>

-----------------------------------------------------------------------------
(* mergeQuerier.LabelValues: one goroutine per querier asks its shard; the    *)
(* value lists are appended to results in the order the shards answer, and    *)
(* mergeStringSlices merges them after wg.Wait().  A label value is a number, *)
(* strings.Compare the order of the numbers.                                  *)

MaxLvQueriers == 4   \* queriers of a mergeQuerier (it has two at least)
MaxLvValue == 3      \* the label values are 1..MaxLvValue

\* what the LabelValues of one shard returns: an error, or a sorted list without
\* duplicates
LvOutcomes ==
  {[err |-> TRUE, values |-> <<>>]} \cup
  { [err |-> FALSE, values |-> s] : s \in AscSeqsTo(MaxLvValue) }

LvNoRet == [returned |-> FALSE, nil |-> TRUE, values |-> <<>>, err |-> <<>>]

\* strings.Compare(a, b)
Compare(a, b) == IF a = b THEN 0 ELSE IF a < b THEN -1 ELSE 1

\* mutation of mergeTwoStringSlices: the two lists one after the other
mergeTwoStringSlices_Concat(a, b) == a \o b

\* the loop of mergeTwoStringSlices from indices i, j (0-based) and the two appends
\* of the rests
RECURSIVE mergeTwoLoop(_, _, _, _, _)
mergeTwoLoop(a, b, i, j, result) ==
  IF i < Len(a) /\ j < Len(b)
  THEN IF Compare(a[i + 1], b[j + 1]) = 0
       THEN mergeTwoLoop(a, b, i + 1, j + 1, Append(result, a[i + 1]))
       ELSE IF Compare(a[i + 1], b[j + 1]) = -1
       THEN mergeTwoLoop(a, b, i + 1, j, Append(result, a[i + 1]))
       ELSE mergeTwoLoop(a, b, i, j + 1, Append(result, b[j + 1]))
  ELSE result \o SubSeq(a, i + 1, Len(a)) \o SubSeq(b, j + 1, Len(b))

mergeTwoStringSlices(a, b) == mergeTwoLoop(a, b, 0, 0, <<>>)

RECURSIVE mergeStringSlices(_)
mergeStringSlices(ss) ==
  IF Len(ss) = 0 THEN <<>>
  ELSE IF Len(ss) = 1 THEN ss[1]
  ELSE IF Len(ss) = 2 THEN mergeTwoStringSlices(ss[1], ss[2])
  ELSE LET halfway == Len(ss) \div 2
       IN  mergeTwoStringSlices(mergeStringSlices(SubSeq(ss, 1, halfway)),
                                mergeStringSlices(SubSeq(ss, halfway + 1, Len(ss))))

LvInit ==
  /\ lvQueriers \in { q \in SeqsUpTo(LvOutcomes, MaxLvQueriers) : Len(q) >= 2 }
  /\ lvRunning = 1..Len(lvQueriers)
  /\ lvMultiErr = <<>>
  /\ lvResults = <<>>
  /\ lvRet = LvNoRet

LvIdle ==
  /\ lvQueriers = <<>> /\ lvRunning = {} /\ lvMultiErr = <<>> /\ lvResults = <<>>
  /\ lvRet = LvNoRet

\* go func(q): the LabelValues of shard idx returns; under mtx its error is
\* appended to multiErr, or its values to results
LvSubQuery(idx) ==
  /\ idx \in lvRunning
  /\ lvRunning' = lvRunning \ {idx}
  /\ IF lvQueriers[idx].err
     THEN /\ lvMultiErr' = Append(lvMultiErr, idx)
          /\ UNCHANGED lvResults
     ELSE /\ lvResults' = Append(lvResults, lvQueriers[idx].values)
          /\ UNCHANGED lvMultiErr
  /\ UNCHANGED <<lvQueriers, lvRet>>

\* after wg.Wait(): return nil, multiErr, or mergeStringSlices(results), nil
LvReturn ==
  /\ lvRunning = {}
  /\ ~lvRet.returned
  /\ lvRet' = IF lvMultiErr # <<>>
              THEN [returned |-> TRUE, nil |-> TRUE, values |-> <<>>, err |-> lvMultiErr]
              ELSE [returned |-> TRUE, nil |-> FALSE, values |-> mergeStringSlices(lvResults),
                    err |-> <<>>]
  /\ UNCHANGED <<lvQueriers, lvRunning, lvMultiErr, lvResults>>

-----------------------------------------------------------------------------
(* Fan-out write and read of one sample.  fanoutAppender.Add routes the       *)
(* sample (labels, t, v) to one shard of the route of (metric, day(t));       *)
(* fanoutQuerier.Select over [t, t] asks the shards of that route and merges. *)
(* Both get the route from getShardIDs of their gateway; the batching         *)
(* appender and the per-shard querier are reduced to the shard's points.      *)

MaxSelects == 2     \* Select calls per gateway

RwGateways == {1, 2}
RwPoint == [t |-> 1, v |-> 7]      \* the sample, of the one label set written
NoGroup == [found |-> FALSE, group |-> <<>>]
RwNoRet == [returned |-> FALSE, fanout |-> <<>>, series |-> <<>>]

\* the router: GetShardIDByLabels picks the shard of the day's group by the hash of
\* the label set
GetShardIDByLabels(group, hash) == group[(hash % Len(group)) + 1]

\* the router: GetShardIDsByTimeSpan over [t, t]: the group of day(t)
GetShardIDsByTimeSpan(group) == group

\* the series sets of the queried shards, merged: no series when no shard has a
\* point in [t, t], else one series with the points of all of them
RECURSIVE rwMergedPoints(_, _)
rwMergedPoints(data, shardIDs) ==
  IF shardIDs = <<>> THEN <<>>
  ELSE data[Head(shardIDs)] \o rwMergedPoints(data, Tail(shardIDs))

rwSelectResult(data, shardIDs) ==
  IF rwMergedPoints(data, shardIDs) = <<>> THEN <<>>
  ELSE << rwMergedPoints(data, shardIDs) >>

RwInit ==
  /\ rwCap \in {1, ShardGroupCap}
  /\ rwHash \in {0, 1}
  /\ rwKey = NoGroup
  /\ rwCache = [g \in RwGateways |-> NoGroup]
  /\ rwPc = [g \in RwGateways |-> "idle"]
  /\ rwOp = [g \in RwGateways |-> "none"]
  /\ rwGroup = [g \in RwGateways |-> <<>>]
  /\ rwData = [s \in RtShardIDs |-> <<>>]
  /\ rwAdded = ""
  /\ rwSelects = [g \in RwGateways |-> 0]
  /\ rwRet = [g \in RwGateways |-> RwNoRet]

RwIdle ==
  /\ rwCap = ShardGroupCap
  /\ rwHash = 0
  /\ rwKey = NoGroup
  /\ rwCache = [g \in RwGateways |-> NoGroup]
  /\ rwPc = [g \in RwGateways |-> "idle"]
  /\ rwOp = [g \in RwGateways |-> "none"]
  /\ rwGroup = [g \in RwGateways |-> <<>>]
  /\ rwData = [s \in RtShardIDs |-> <<>>]
  /\ rwAdded = ""
  /\ rwSelects = [g \in RwGateways |-> 0]
  /\ rwRet = [g \in RwGateways |-> RwNoRet]

\* gateway g starts fanoutAppender.Add of the sample (once, on one gateway)
RwStartAdd(g) ==
  /\ rwPc[g] = "idle"
  /\ rwAdded = ""
  /\ \A h \in RwGateways : rwOp[h] # "add"
  /\ rwPc' = [rwPc EXCEPT ![g] = "get"]
  /\ rwOp' = [rwOp EXCEPT ![g] = "add"]
  /\ UNCHANGED <<rwCap, rwHash, rwKey, rwCache, rwGroup, rwData, rwAdded, rwSelects, rwRet>>

\* gateway g starts fanoutQuerier.Select over [t, t]; a Select that starts after
\* the sample was added is the read of the round trip
RwStartSelect(g) ==
  /\ rwPc[g] = "idle"
  /\ rwSelects[g] < MaxSelects
  /\ rwSelects' = [rwSelects EXCEPT ![g] = @ + 1]
  /\ rwPc' = [rwPc EXCEPT ![g] = "get"]
  /\ rwOp' = [rwOp EXCEPT ![g] = IF rwAdded # "" THEN "read" ELSE "select"]
  /\ rwRet' = [rwRet EXCEPT ![g] = RwNoRet]
  /\ UNCHANGED <<rwCap, rwHash, rwKey, rwCache, rwGroup, rwData, rwAdded>>

\* getShardIDs: the cached group, or the group under the route key; no key: allocate
RwGetShardIDs(g) ==
  /\ rwPc[g] = "get"
  /\ IF rwCache[g].found
     THEN /\ rwGroup' = [rwGroup EXCEPT ![g] = rwCache[g].group]
          /\ rwPc' = [rwPc EXCEPT ![g] = "routed"]
          /\ UNCHANGED rwCache
     ELSE IF rwKey.found
     THEN /\ rwGroup' = [rwGroup EXCEPT ![g] = rwKey.group]
          /\ rwCache' = [rwCache EXCEPT ![g] = rwKey]
          /\ rwPc' = [rwPc EXCEPT ![g] = "routed"]
     ELSE /\ rwPc' = [rwPc EXCEPT ![g] = "alloc"]
          /\ UNCHANGED <<rwGroup, rwCache>>
  /\ UNCHANGED <<rwCap, rwHash, rwKey, rwOp, rwData, rwAdded, rwSelects, rwRet>>

\* getShardIDsFromEtcd after ErrKeyNotFound: GetMasters, the first cap of them,
\* etcdPut; getShardIDs caches the group and returns it
RwAllocate(g) ==
  /\ rwPc[g] = "alloc"
  /\ \E masters \in MasterLists :
       /\ Len(masters) = Cardinality(RtShardIDs)
       /\ LET shardGroup == SubSeq(masters, 1, rwCap)
          IN  /\ rwKey' = [found |-> TRUE, group |-> shardGroup]
              /\ rwCache' = [rwCache EXCEPT ![g] = [found |-> TRUE, group |-> shardGroup]]
              /\ rwGroup' = [rwGroup EXCEPT ![g] = shardGroup]
  /\ rwPc' = [rwPc EXCEPT ![g] = "routed"]
  /\ UNCHANGED <<rwCap, rwHash, rwOp, rwData, rwAdded, rwSelects, rwRet>>

\* fanoutAppender.Add: the appender of the routed shard takes the sample (and
\* flushes it to the shard)
RwAdd(g) ==
  LET shardID == GetShardIDByLabels(rwGroup[g], rwHash) IN
  /\ rwPc[g] = "routed" /\ rwOp[g] = "add"
  /\ rwData' = [rwData EXCEPT ![shardID] = Append(@, RwPoint)]
  /\ rwAdded' = shardID
  /\ rwPc' = [rwPc EXCEPT ![g] = "idle"]
  /\ rwOp' = [rwOp EXCEPT ![g] = "none"]
  /\ UNCHANGED <<rwCap, rwHash, rwKey, rwCache, rwGroup, rwSelects, rwRet>>

\* fanoutQuerier.Select: a querier per shard of the route, NewMergeQuerier, Select
RwSelect(g) ==
  LET shardIDs == GetShardIDsByTimeSpan(rwGroup[g]) IN
  /\ rwPc[g] = "routed" /\ rwOp[g] \in {"select", "read"}
  /\ rwRet' = [rwRet EXCEPT ![g] =
       IF rwOp[g] = "read"
       THEN [returned |-> TRUE, fanout |-> shardIDs, series |-> rwSelectResult(rwData, shardIDs)]
       ELSE RwNoRet]
  /\ rwPc' = [rwPc EXCEPT ![g] = "idle"]
  /\ rwOp' = [rwOp EXCEPT ![g] = "none"]
  /\ UNCHANGED <<rwCap, rwHash, rwKey, rwCache, rwGroup, rwData, rwAdded, rwSelects>>

-----------------------------------------------------------------------------
(* fanoutAppender.Flush: the loop over the per-shard appenders, in the order  *)
(* of the map iteration.                                                      *)

FlShardIDs == {"A", "B", "C"}

\* an appender of the map: its Flush fails or not
FlAppenders == [FlShardIDs -> {"none", "ok", "err"}]

FlNoRet == [returned |-> FALSE, err |-> <<>>]

\* mutation of fanoutAppender.Flush: the error replaces the ones before it
flAppend_Last(multiErr, e) == <<e>>

\* multiErr = multierror.Append(multiErr, err)
flAppend(multiErr, e) == Append(multiErr, e)

FlInit ==
  /\ flAppenders \in FlAppenders
  /\ flPending = { s \in FlShardIDs : flAppenders[s] # "none" }
  /\ flFlushed = {}
  /\ flMultiErr = <<>>
  /\ flRet = FlNoRet

FlIdle ==
  /\ flAppenders = [s \in FlShardIDs |-> "none"]
  /\ flPending = {} /\ flFlushed = {} /\ flMultiErr = <<>> /\ flRet = FlNoRet

\* one iteration of for _, app := range fanoutApp.appenders
FlFlushOne(s) ==
  /\ s \in flPending
  /\ flPending' = flPending \ {s}
  /\ flFlushed' = flFlushed \cup {s}
  /\ flMultiErr' = IF flAppenders[s] = "err" THEN flAppend(flMultiErr, s) ELSE flMultiErr
  /\ UNCHANGED <<flAppenders, flRet>>

\* return multiErr
FlReturn ==
  /\ flPending = {}
  /\ ~flRet.returned
  /\ flRet' = [returned |-> TRUE, err |-> flMultiErr]
  /\ UNCHANGED <<flAppenders, flPending, flFlushed, flMultiErr>>

-----------------------------------------------------------------------------
(* FailoverIfNeeded from its call to its return, over every argument and     *)
(* every view: the tests before the latch, the latch, mutexRun.  What the    *)
(* callback of mutexRun does is modelled in the failover section above.      *)

FeShardIDs == {"S", "T"}

\* the argument: nil, or a node with its ShardID and the result of MayOnline()
FeNilNode == [isNil |-> TRUE, ShardID |-> "S", mayOnline |-> FALSE]
FeNodes ==
  {FeNilNode} \cup [isNil : {FALSE}, ShardID : FeShardIDs, mayOnline : BOOLEAN]

FeNoEffect == [latched |-> FALSE, mutex |-> FALSE, sent |-> FALSE]

\* mutation of FailoverIfNeeded: the tests of found and of MayOnline are left out
feProceeds_Always(found, mayOnline) == TRUE

\* if !found { return }; if node.MayOnline() { return }
feProceeds(found, mayOnline) == found /\ ~mayOnline

\* a view with any set of shards, each latch free or held by another call
FeInit ==
  /\ feNode \in FeNodes
  /\ feShards \in SUBSET FeShardIDs
  /\ feFailovering \in [FeShardIDs -> {0, 1}]
  /\ \A s \in FeShardIDs \ feShards : feFailovering[s] = 0
  /\ fePc = "called"
  /\ feEffect = FeNoEffect

FeIdle ==
  /\ feNode = FeNilNode /\ feShards = {} /\ feFailovering = [s \in FeShardIDs |-> 0]
  /\ fePc = "returned" /\ feEffect = FeNoEffect

\* node == nil; shard, found := GetShard(node.ShardID); !found; node.MayOnline()
FeTests ==
  /\ fePc = "called"
  /\ fePc' = IF feNode.isNil THEN "returned"
             ELSE IF feProceeds(feNode.ShardID \in feShards, feNode.mayOnline)
                  THEN "encode" ELSE "returned"
  /\ UNCHANGED <<feNode, feShards, feFailovering, feEffect>>

\* n, err := msgCodec.Encode(...); err != nil: return
FeEncode ==
  /\ fePc = "encode"
  /\ \E ok \in BOOLEAN : fePc' = IF ok THEN "cas" ELSE "returned"
  /\ UNCHANGED <<feNode, feShards, feFailovering, feEffect>>

\* if !CompareAndSwapUint32(&shard.failovering, 0, 1) { return }
FeCas ==
  /\ fePc = "cas"
  /\ IF feFailovering[feNode.ShardID] # 0
     THEN /\ fePc' = "returned"
          /\ UNCHANGED <<feFailovering, feEffect>>
     ELSE /\ feFailovering' = [feFailovering EXCEPT ![feNode.ShardID] = 1]
          /\ feEffect' = [feEffect EXCEPT !.latched = TRUE]
          /\ fePc' = "mutex"
  /\ UNCHANGED <<feNode, feShards>>

\* failoverErr := mutexRun("failover", func ...): the mutex is taken or not, the
\* callback sends the command or returns before
FeMutexRun ==
  /\ fePc = "mutex"
  /\ \E acquired, sends \in BOOLEAN :
       /\ sends => acquired
       /\ feEffect' = [feEffect EXCEPT !.mutex = acquired, !.sent = sends]
  /\ fePc' = "deferred"
  /\ UNCHANGED <<feNode, feShards, feFailovering>>

\* defer atomic.StoreUint32(&shard.failovering, 0)
FeDeferred ==
  /\ fePc = "deferred"
  /\ feFailovering' = [feFailovering EXCEPT ![feNode.ShardID] = 0]
  /\ fePc' = "returned"
  /\ UNCHANGED <<feNode, feShards, feEffect>>

-----------------------------------------------------------------------------
(* meta.watch, case wresp = <-nch: the loop over the events of one response  *)
(* and the RefreshCluster after it.  The value of a node key is the JSON of  *)
(* the node; a value is a sequence of tokens.                                *)

MaxBatch == 3        \* events of one watch response

NbAddrs == {"m", "s1"}

\* json.Marshal(node)
NbEncode(a) == <<"{", a, "}">>

\* a previous value: none (PrevKv == nil), the JSON of a node, or bytes that are no JSON
NbNoPrevKv == <<>>
NbGarbage == <<"{", "m">>
NbPrevValues == {NbNoPrevKv, NbGarbage} \cup { NbEncode(a) : a \in NbAddrs }

NbEvents == [Type : {"PUT", "DELETE"}, PrevKv : NbPrevValues]

\* json.Unmarshal(ev.PrevKv.Value, &node)
NbUnmarshal(v) ==
  IF Len(v) = 3 /\ v[1] = "{" /\ v[3] = "}" /\ v[2] \in NbAddrs
  THEN [err |-> FALSE, node |-> v[2]]
  ELSE [err |-> TRUE, node |-> ""]

\* mutation of meta.watch: the type of the event is not tested
nbIsDeleteWithPrev_AnyType(ev) == ev.PrevKv # NbNoPrevKv

\* if ev.Type == mvccpb.DELETE && ev.PrevKv != nil
nbIsDeleteWithPrev(ev) == ev.Type = "DELETE" /\ ev.PrevKv # NbNoPrevKv

NbInit ==
  /\ nbWresp \in UNION { [1..n -> NbEvents] : n \in 0..MaxBatch }
  /\ nbNext = 1
  /\ nbLog = <<>>
  /\ nbPc = "range"

NbIdle ==
  /\ nbWresp = <<>> /\ nbNext = 1 /\ nbLog = <<>> /\ nbPc = "select"

\* one iteration of for _, ev := range wresp.Events
NbEvent ==
  /\ nbPc = "range"
  /\ nbNext <= Len(nbWresp)
  /\ LET ev == nbWresp[nbNext]
         r == NbUnmarshal(ev.PrevKv)
     IN  nbLog' = IF nbIsDeleteWithPrev(ev) /\ ~r.err
                  THEN Append(nbLog, [call |-> "FailoverIfNeeded", node |-> r.node])
                  ELSE nbLog
  /\ nbNext' = nbNext + 1
  /\ UNCHANGED <<nbWresp, nbPc>>

\* m.RefreshCluster() after the loop, then back to the select
NbRefresh ==
  /\ nbPc = "range"
  /\ nbNext > Len(nbWresp)
  /\ nbLog' = Append(nbLog, [call |-> "RefreshCluster", node |-> ""])
  /\ nbPc' = "select"
  /\ UNCHANGED <<nbWresp, nbNext>>

-----------------------------------------------------------------------------
(* meta.watch: the three watch channels and the select loop.  The channels   *)
(* are made once, before the loop; a channel that the client closes gives    *)
(* zero-value responses from then on.                                        *)

MaxPending == 1      \* responses waiting in a watch channel
MaxMissed == 1       \* changes under a prefix, counted after its channel was closed
MaxRefreshes == 2    \* RefreshCluster calls, counted up to this number

WsChans == {"rch", "gch", "nch"}

\* rch := cli.Watch(...); gch := cli.Watch(...); nch := cli.Watch(...)
WsInit ==
  /\ wsChan = [c \in WsChans |-> "open"]
  /\ wsQueue = [c \in WsChans |-> 0]
  /\ wsMissed = [c \in WsChans |-> 0]
  /\ wsRefreshes = 0

WsIdle == WsInit

\* a key under the prefix of a watch changes: a response for an open channel
WsStoreChange(c) ==
  /\ IF wsChan[c] = "open"
     THEN /\ wsQueue[c] < MaxPending
          /\ wsQueue' = [wsQueue EXCEPT ![c] = wsQueue[c] + 1]
          /\ UNCHANGED wsMissed
     ELSE /\ wsMissed[c] < MaxMissed
          /\ wsMissed' = [wsMissed EXCEPT ![c] = wsMissed[c] + 1]
          /\ UNCHANGED wsQueue
  /\ UNCHANGED <<wsChan, wsRefreshes>>

\* the watch is cancelled (compacted revision, lost session): the client closes the channel
WsClosed(c) ==
  /\ wsChan[c] = "open"
  /\ wsChan' = [wsChan EXCEPT ![c] = "closed"]
  /\ UNCHANGED <<wsQueue, wsMissed, wsRefreshes>>

\* select { case wresp = <-c: ... }: a waiting response, or the zero value of a
\* closed channel, which has no events; after case nch, m.RefreshCluster()
WsReceive(c) ==
  /\ wsQueue[c] > 0 \/ wsChan[c] = "closed"
  /\ wsQueue' = [wsQueue EXCEPT ![c] = IF wsQueue[c] > 0 THEN wsQueue[c] - 1 ELSE 0]
  /\ wsRefreshes' = IF c = "nch" /\ wsRefreshes < MaxRefreshes
                    THEN wsRefreshes + 1 ELSE wsRefreshes
  /\ UNCHANGED <<wsChan, wsMissed>>

-----------------------------------------------------------------------------
(* meta.getShardIDs and getShardIDsFromEtcd, statement by statement, for the *)
(* calls of one goroutine: every result of the store operations, every list  *)
(* of masters.                                                               *)

MaxGaCalls == 2      \* getShardIDs calls in a row

GaShardIDs == {"A", "B", "C"}
GaCaller == <<1, 1>>

\* what GetMasters() can return: the masters in some order
GaMasterLists ==
  UNION { { s \in [1..n -> GaShardIDs] : \A i, j \in 1..n : i # j => s[i] # s[j] }
          : n \in 0..Cardinality(GaShardIDs) }

\* the values of the sgroute key of the metric: "" when the key is absent
GaRouteKs == {"", "k"}

GaNoRet == [valid |-> FALSE, day |-> 0, group |-> <<>>, shardGrpRouteK |-> "", err |-> "nil"]

\* mutation of getShardIDs: the result of getShardIDsFromEtcd is cached whatever err is
gaErrIsNil_Always(err) == TRUE

\* if err == nil { routeInfo.ShardGrpRouteK = ...; routeInfo.Put(day, shardGroup) }
gaErrIsNil(err) == err = "nil"

\* the store holds no route key or the key of a day, and the sgroute key or not
GaInit ==
  /\ gaKv \in [Days -> {NoEntry, Entry(<<"C", "A">>)}]
  /\ gaSgStore \in GaRouteKs
  /\ gaInfo = FreshRouteInfo
  /\ gaRouteK = ""
  /\ gaPc = "idle"
  /\ gaDay = 0
  /\ gaSg = ""
  /\ gaGroup = NoEntry
  /\ gaErr = "nil"
  /\ gaMasters = [called |-> FALSE, list |-> <<>>]
  /\ gaBefore = [info |-> FreshRouteInfo, routeK |-> ""]
  /\ gaPuts = 0
  /\ gaCalls = 0
  /\ gaRet = GaNoRet

GaIdle ==
  /\ gaKv = [d \in Days |-> NoEntry] /\ gaSgStore = ""
  /\ gaInfo = FreshRouteInfo /\ gaRouteK = "" /\ gaPc = "idle" /\ gaDay = 0
  /\ gaSg = "" /\ gaGroup = NoEntry /\ gaErr = "nil"
  /\ gaMasters = [called |-> FALSE, list |-> <<>>]
  /\ gaBefore = [info |-> FreshRouteInfo, routeK |-> ""]
  /\ gaPuts = 0 /\ gaCalls = 0 /\ gaRet = GaNoRet

\* getShardIDs(Metric, d) is called
GaCall(d) ==
  /\ gaPc = "idle"
  /\ gaCalls < MaxGaCalls
  /\ gaCalls' = gaCalls + 1
  /\ gaDay' = d
  /\ gaBefore' = [info |-> gaInfo, routeK |-> gaRouteK]
  /\ gaPuts' = 0
  /\ gaMasters' = [called |-> FALSE, list |-> <<>>]
  /\ gaPc' = "check1"
  /\ UNCHANGED <<gaKv, gaSgStore, gaInfo, gaRouteK, gaSg, gaGroup, gaErr, gaRet>>

\* shardGroup, shardGrpRouteK, found := m.getShardIDsFromCache(...); found: return
GaCheck1 ==
  /\ gaPc = "check1"
  /\ LET e == RouteInfo_Get(gaInfo, gaDay) IN
     IF e.found
     THEN /\ gaRet' = [valid |-> TRUE, day |-> gaDay, group |-> e.group, shardGrpRouteK |-> gaRouteK,
                       err |-> "nil"]
          /\ gaPc' = "idle"
     ELSE /\ gaPc' = "lock"
          /\ UNCHANGED gaRet
  /\ UNCHANGED <<gaKv, gaSgStore, gaInfo, gaRouteK, gaDay, gaSg, gaGroup, gaErr,
                 gaMasters, gaBefore, gaPuts, gaCalls>>

\* routeInfo.Lock()
GaLock ==
  /\ gaPc = "lock"
  /\ gaInfo.lock = NoThread
  /\ gaInfo' = [gaInfo EXCEPT !.lock = GaCaller]
  /\ gaPc' = "check2"
  /\ UNCHANGED <<gaKv, gaSgStore, gaRouteK, gaDay, gaSg, gaGroup, gaErr, gaMasters,
                 gaBefore, gaPuts, gaCalls, gaRet>>

\* the second getShardIDsFromCache; !found: getShardIDsFromEtcd
GaCheck2 ==
  /\ gaPc = "check2"
  /\ LET e == RouteInfo_Get(gaInfo, gaDay) IN
     IF e.found
     THEN /\ gaGroup' = e
          /\ gaSg' = gaRouteK
          /\ gaPc' = "unlock"
     ELSE /\ gaPc' = "sgget"
          /\ UNCHANGED <<gaGroup, gaSg>>
  /\ UNCHANGED <<gaKv, gaSgStore, gaInfo, gaRouteK, gaDay, gaErr, gaMasters,
                 gaBefore, gaPuts, gaCalls, gaRet>>

\* err := etcdGet(sGrpRoutePrefix()+metricName, &sGrpRouteKey);
\* err != nil && err != ErrKeyNotFound: return nil, "", err
GaSgGet ==
  /\ gaPc = "sgget"
  /\ \E fails \in BOOLEAN :
       IF fails
       THEN /\ gaErr' = "store" /\ gaSg' = "" /\ gaPc' = "fromEtcd"
       ELSE /\ gaSg' = gaSgStore /\ gaPc' = "keyget" /\ UNCHANGED gaErr
  /\ UNCHANGED <<gaKv, gaSgStore, gaInfo, gaRouteK, gaDay, gaGroup, gaMasters,
                 gaBefore, gaPuts, gaCalls, gaRet>>

\* err = etcdGet(key, &shardGroup): nil, ErrKeyNotFound, or another error
GaKeyGet ==
  /\ gaPc = "keyget"
  /\ \E fails \in BOOLEAN :
       IF fails
       THEN /\ gaErr' = "store" /\ gaSg' = "" /\ gaPc' = "fromEtcd"
            /\ UNCHANGED gaGroup
       ELSE IF gaKv[gaDay].found
       THEN /\ gaGroup' = gaKv[gaDay] /\ gaPc' = "fromEtcd"
            /\ UNCHANGED <<gaErr, gaSg>>
       ELSE /\ gaPc' = "masters"
            /\ UNCHANGED <<gaErr, gaSg, gaGroup>>
  /\ UNCHANGED <<gaKv, gaSgStore, gaInfo, gaRouteK, gaDay, gaMasters,
                 gaBefore, gaPuts, gaCalls, gaRet>>

\* masters, err := GetMasters(); the test of len(masters); the loop over masters
GaGetMasters ==
  /\ gaPc = "masters"
  /\ \/ /\ gaErr' = "store" /\ gaSg' = "" /\ gaPc' = "fromEtcd"
        /\ UNCHANGED <<gaMasters, gaGroup>>
     \/ \E masters \in GaMasterLists :
          /\ gaMasters' = [called |-> TRUE, list |-> masters]
          /\ IF notEnoughMasters(masters)
             THEN /\ gaErr' = "not enough shards" /\ gaSg' = "" /\ gaPc' = "fromEtcd"
                  /\ UNCHANGED gaGroup
             ELSE /\ gaGroup' = Entry(firstShards(masters))
                  /\ gaPc' = "lease"
                  /\ UNCHANGED <<gaErr, gaSg>>
  /\ UNCHANGED <<gaKv, gaSgStore, gaInfo, gaRouteK, gaDay, gaBefore, gaPuts, gaCalls, gaRet>>

\* leaseID, err := getEtcdLease(day)
GaLease ==
  /\ gaPc = "lease"
  /\ \E fails \in BOOLEAN :
       IF fails
       THEN /\ gaErr' = "store" /\ gaSg' = "" /\ gaGroup' = NoEntry /\ gaPc' = "fromEtcd"
       ELSE /\ gaPc' = "put" /\ UNCHANGED <<gaErr, gaSg, gaGroup>>
  /\ UNCHANGED <<gaKv, gaSgStore, gaInfo, gaRouteK, gaDay, gaMasters,
                 gaBefore, gaPuts, gaCalls, gaRet>>

\* err = etcdPut(key, shardGroup, leaseID)
GaPut ==
  /\ gaPc = "put"
  /\ \E fails \in BOOLEAN :
       IF fails
       THEN /\ gaErr' = "store" /\ gaSg' = "" /\ gaGroup' = NoEntry
            /\ UNCHANGED <<gaKv, gaPuts>>
       ELSE /\ gaKv' = [gaKv EXCEPT ![gaDay] = gaGroup]
            /\ gaPuts' = gaPuts + 1
            /\ UNCHANGED <<gaErr, gaSg, gaGroup>>
  /\ gaPc' = "fromEtcd"
  /\ UNCHANGED <<gaSgStore, gaInfo, gaRouteK, gaDay, gaMasters, gaBefore, gaCalls, gaRet>>

\* getShardIDs, after getShardIDsFromEtcd: the result is cached when err == nil
GaCache ==
  /\ gaPc = "fromEtcd"
  /\ IF gaErrIsNil(gaErr)
     THEN /\ gaRouteK' = gaSg
          /\ gaInfo' = RouteInfo_Put(gaInfo, gaDay, gaGroup.group)
     ELSE UNCHANGED <<gaRouteK, gaInfo>>
  /\ gaPc' = "unlock"
  /\ UNCHANGED <<gaKv, gaSgStore, gaDay, gaSg, gaGroup, gaErr, gaMasters,
                 gaBefore, gaPuts, gaCalls, gaRet>>

\* routeInfo.Unlock(); return shardGroup, shardGrpRouteK, err
GaUnlockReturn ==
  /\ gaPc = "unlock"
  /\ gaInfo' = [gaInfo EXCEPT !.lock = NoThread]
  /\ gaRet' = [valid |-> TRUE, day |-> gaDay, group |-> gaGroup.group, shardGrpRouteK |-> gaSg,
               err |-> gaErr]
  /\ gaGroup' = NoEntry /\ gaSg' = "" /\ gaErr' = "nil"
  /\ gaPc' = "idle"
  /\ UNCHANGED <<gaKv, gaSgStore, gaRouteK, gaDay, gaMasters, gaBefore, gaPuts, gaCalls>>

-----------------------------------------------------------------------------
(* mergeSeriesSet.At.  A series is named by its child and its index there.   *)

MaNoAt == [called |-> FALSE, merged |-> FALSE, labels |-> 0, series |-> <<>>]

\* mutation of mergeSeriesSet.At: the series of the first current set, always
mergeSeriesSet_At_First(sets, pos, currentSets, currentLabels) ==
  [called |-> TRUE, merged |-> FALSE,
   labels |-> sets[currentSets[1]][pos[currentSets[1]]],
   series |-> << <<currentSets[1], pos[currentSets[1]]>> >>]

\* At(): c.currentSets[0].At() when len(c.currentSets) == 1, else a mergeSeries of
\* c.currentLabels and the At() of every current set
mergeSeriesSet_At(sets, pos, currentSets, currentLabels) ==
  IF Len(currentSets) = 1
  THEN [called |-> TRUE, merged |-> FALSE,
        labels |-> sets[currentSets[1]][pos[currentSets[1]]],
        series |-> << <<currentSets[1], pos[currentSets[1]]>> >>]
  ELSE [called |-> TRUE, merged |-> TRUE, labels |-> currentLabels,
        series |-> [i \in 1..Len(currentSets) |-> <<currentSets[i], pos[currentSets[i]]>>]]

MaIdle == maAt = MaNoAt

\* Next() of the merge series set; what At() returned before is out of date
MaNext == mergeSeriesSet_Next /\ maAt' = MaNoAt

\* At() after a successful Next()
MaAt ==
  /\ Len(msSets) # 1 /\ msOut # <<>> /\ ~msDone
  /\ ~maAt.called
  /\ maAt' = mergeSeriesSet_At(msSets, msPos, msCurrentSets, msCurrentLabels)
  /\ UNCHANGED msVars

-----------------------------------------------------------------------------
(* mergeSeriesSet.Err.  The Err() of child c is nil or the error "e" of c.   *)

MeNoErr == [nil |-> TRUE, of |-> 0]
MeErrOf(c) == [nil |-> FALSE, of |-> c]
MeNoRet == [called |-> FALSE, err |-> MeNoErr]

\* mutation of mergeSeriesSet.Err: the last error wins, as in mergeQuerier.Close
RECURSIVE mergeSeriesSet_Err_Last(_)
mergeSeriesSet_Err_Last(errs) ==
  IF errs = <<>> THEN MeNoErr
  ELSE IF ~errs[Len(errs)].nil THEN errs[Len(errs)]
  ELSE mergeSeriesSet_Err_Last(SubSeq(errs, 1, Len(errs) - 1))

\* for _, set := range c.sets { if err := set.Err(); err != nil { return err } }; return nil
RECURSIVE mergeSeriesSet_Err(_)
mergeSeriesSet_Err(errs) ==
  IF errs = <<>> THEN MeNoErr
  ELSE IF ~Head(errs).nil THEN Head(errs)
  ELSE mergeSeriesSet_Err(Tail(errs))

\* NewMergeSeriesSet over zero, two or three children, any of them with an error
MeInit ==
  /\ msSets \in SeqsUpTo(AscSeqsTo(2), MaxChildren)
  /\ Len(msSets) # 1
  /\ LET m == NewMergeSeriesSet(msSets)
     IN  msPos = m.pos /\ msHeap = m.heap
  /\ msCurrentSets = <<>>
  /\ msCurrentLabels = 0
  /\ msOut = <<>>
  /\ msDone = FALSE
  /\ meErrs \in [1..Len(msSets) -> BOOLEAN]
  /\ meRet = MeNoRet

MeIdle == meErrs = <<>> /\ meRet = MeNoRet

\* Next() of the merge series set
MeNext == mergeSeriesSet_Next /\ meRet' = MeNoRet /\ UNCHANGED meErrs

\* Err(), at any point of the iteration
MeErr ==
  /\ ~meRet.called
  /\ meRet' = [called |-> TRUE,
               err |-> mergeSeriesSet_Err([c \in 1..Len(msSets) |->
                                             IF meErrs[c] THEN MeErrOf(c) ELSE MeNoErr])]
  /\ UNCHANGED <<msVars, meErrs>>

-----------------------------------------------------------------------------
(* fanoutAppender.Add: the map of per-shard appenders.  An appender is an    *)
(* object, named by the number of its creation; sample n is that of call n.  *)

MaxAdds == 4         \* Add calls on one fanoutAppender

FaShardIDs == {"A", "B"}
FaNoRet == [called |-> FALSE, err |-> "nil"]

\* mutation of fanoutAppender.Add: the map is not looked up, an appender is made each time
faFound_Never(appenders, shardID) == FALSE

\* app, found := fanoutApp.appenders[shardID]
faFound(appenders, shardID) == appenders[shardID] # 0

\* Appender(): make(map[string]*appender)
FaInit ==
  /\ faAppenders = [s \in FaShardIDs |-> 0]
  /\ faCreated = 0
  /\ faLog = <<>>
  /\ faBefore = [s \in FaShardIDs |-> 0]
  /\ faAdds = 0
  /\ faRet = FaNoRet

FaIdle == FaInit

\* Add(l, t, v, hash): the router fails or returns shardID; newAppender fails or
\* not; app.Add fails or not
FaAdd(routeErr, shardID, createErr, addErr) ==
  /\ faAdds < MaxAdds
  /\ faAdds' = faAdds + 1
  /\ faBefore' = faAppenders
  /\ IF routeErr
     THEN /\ faRet' = [called |-> TRUE, err |-> "route"]
          /\ UNCHANGED <<faAppenders, faCreated, faLog>>
     ELSE IF ~faFound(faAppenders, shardID) /\ createErr
     THEN /\ faRet' = [called |-> TRUE, err |-> "create"]
          /\ UNCHANGED <<faAppenders, faCreated, faLog>>
     ELSE LET app == IF faFound(faAppenders, shardID) THEN faAppenders[shardID]
                     ELSE faCreated + 1
          IN  /\ faAppenders' = [faAppenders EXCEPT ![shardID] = app]
              /\ faCreated' = IF faFound(faAppenders, shardID) THEN faCreated
                              ELSE faCreated + 1
              /\ faLog' = Append(faLog, [sample |-> faAdds + 1, shardID |-> shardID,
                                         app |-> app])
              /\ faRet' = [called |-> TRUE, err |-> IF addErr THEN "add" ELSE "nil"]

-----------------------------------------------------------------------------
(* RefreshCluster with what each call returns: "none" while the call runs or  *)
(* before the first call, "nil", or "err" for the error of GetNodes.          *)

ReIdle == reRet = [t \in Refreshers |-> "none"]

\* the CompareAndSwap; the loser returns nil
ReCas(t) ==
  /\ RvCas(t)
  /\ reRet' = [reRet EXCEPT ![t] = IF rvRefreshing = 0 THEN "none" ELSE "nil"]

\* GetNodes; if err != nil { return err }
ReEnumerate(t, ok) ==
  /\ RvGetNodesStep(t, ok)
  /\ reRet' = [reRet EXCEPT ![t] = IF ok THEN @ ELSE "err"]

\* return nil, after the StorePointer
ReReturn(t) ==
  /\ RvReturn(t)
  /\ reRet' = [reRet EXCEPT ![t] = "nil"]

-----------------------------------------------------------------------------
(* Watch(): RefreshCluster, m.watch(), globalMeta = m, and the goroutine that *)
(* m.watch() starts, up to the first statements of FailoverIfNeeded.  A node  *)
(* response carries one event.  A nil dereference panics and ends the process.*)

MaxGmEvents == 2     \* node events delivered to the watcher

\* the value a goroutine reads from globalMeta.  The watcher's read is not
\* ordered with the write of Watch(): it gives nil or the value written.
globalMetaRead(global, ordered) == IF ordered THEN {global} ELSE {global, "nil"}

GmNoRead == [by |-> "", globalMeta |-> "", shards |-> "", watchPc |-> ""]

GmInit ==
  /\ gmPc = "RefreshCluster"
  /\ gmShards = "nil"
  /\ gmGlobal = "nil"
  /\ gmWatcher = "none"
  /\ gmNch = <<>>
  /\ gmNode = ""
  /\ gmSent = 0
  /\ gmRead = GmNoRead
  /\ gmPanic = FALSE

GmIdle == GmInit

\* Watch(): err := m.RefreshCluster(); if err != nil { return err }
GmRefreshCluster(ok) ==
  /\ ~gmPanic
  /\ gmPc = "RefreshCluster"
  /\ gmShards' = IF ok THEN "map" ELSE gmShards
  /\ gmPc' = IF ok THEN "watch" ELSE "failed"
  /\ UNCHANGED <<gmGlobal, gmWatcher, gmNch, gmNode, gmSent, gmRead, gmPanic>>

\* Watch(): m.watch(), which starts the goroutine
GmWatch ==
  /\ ~gmPanic
  /\ gmPc = "watch"
  /\ gmWatcher' = "dial"
  /\ gmPc' = "assign"
  /\ UNCHANGED <<gmShards, gmGlobal, gmNch, gmNode, gmSent, gmRead, gmPanic>>

\* Watch(): globalMeta = m; return nil
GmAssign ==
  /\ ~gmPanic
  /\ gmPc = "assign"
  /\ gmGlobal' = "m"
  /\ gmPc' = "done"
  /\ UNCHANGED <<gmShards, gmWatcher, gmNch, gmNode, gmSent, gmRead, gmPanic>>

\* the goroutine: clientv3.New (os.Exit(1) on error), the three cli.Watch
GmDial(ok) ==
  /\ ~gmPanic
  /\ gmWatcher = "dial"
  /\ gmWatcher' = IF ok THEN "select" ELSE "exited"
  /\ UNCHANGED <<gmPc, gmShards, gmGlobal, gmNch, gmNode, gmSent, gmRead, gmPanic>>

\* a node key changes after the watch of the node prefix was made
GmNodeEvent(ev) ==
  /\ ~gmPanic
  /\ gmWatcher \in {"select", "FailoverIfNeeded", "RefreshCluster"}
  /\ gmSent < MaxGmEvents
  /\ gmNch' = Append(gmNch, ev)
  /\ gmSent' = gmSent + 1
  /\ UNCHANGED <<gmPc, gmShards, gmGlobal, gmWatcher, gmNode, gmRead, gmPanic>>

\* case wresp = <-nch: the test of the event and json.Unmarshal of its previous value
GmReceive ==
  /\ ~gmPanic
  /\ gmWatcher = "select"
  /\ gmNch # <<>>
  /\ LET ev == Head(gmNch)
         r == NbUnmarshal(ev.PrevKv)
     IN  IF nbIsDeleteWithPrev(ev) /\ ~r.err
         THEN gmWatcher' = "FailoverIfNeeded" /\ gmNode' = r.node
         ELSE gmWatcher' = "RefreshCluster" /\ gmNode' = ""
  /\ gmNch' = Tail(gmNch)
  /\ UNCHANGED <<gmPc, gmShards, gmGlobal, gmSent, gmRead, gmPanic>>

\* FailoverIfNeeded(&node): globalMeta.GetShard(node.ShardID), that is
\* atomic.LoadPointer(&globalMeta.shards) and the index of the map it points to
GmFailoverIfNeeded ==
  /\ ~gmPanic
  /\ gmWatcher = "FailoverIfNeeded"
  /\ \E g \in globalMetaRead(gmGlobal, FALSE) :
       /\ gmRead' = [by |-> "FailoverIfNeeded", globalMeta |-> g,
                     shards |-> IF g = "nil" THEN "" ELSE gmShards, watchPc |-> gmPc]
       /\ gmPanic' = (g = "nil" \/ gmShards = "nil")
       /\ gmWatcher' = IF g = "nil" \/ gmShards = "nil" THEN gmWatcher ELSE "RefreshCluster"
  /\ gmNode' = ""
  /\ UNCHANGED <<gmPc, gmShards, gmGlobal, gmNch, gmSent>>

\* m.RefreshCluster() after the events of the response
GmWatcherRefresh(ok) ==
  /\ ~gmPanic
  /\ gmWatcher = "RefreshCluster"
  /\ gmShards' = IF ok THEN "map" ELSE gmShards
  /\ gmWatcher' = "select"
  /\ UNCHANGED <<gmPc, gmGlobal, gmNch, gmNode, gmSent, gmRead, gmPanic>>

\* GetMaster, GetSlaves, AllShards, called by the gateway after Watch() returned nil
GmGetMaster ==
  /\ ~gmPanic
  /\ gmPc = "done"
  /\ gmWatcher # "exited"
  /\ \E g \in globalMetaRead(gmGlobal, TRUE) :
       /\ gmRead' = [by |-> "GetMaster", globalMeta |-> g,
                     shards |-> IF g = "nil" THEN "" ELSE gmShards, watchPc |-> gmPc]
       /\ gmPanic' = (g = "nil" \/ gmShards = "nil")
  /\ UNCHANGED <<gmPc, gmShards, gmGlobal, gmWatcher, gmNch, gmNode, gmSent>>

-----------------------------------------------------------------------------
(* tcp.ReadWriteLoop: LoopRead, LoopWrite, Write, CloseRead, CloseWrite and   *)
(* Exit, with the connection and the outgoing queue reduced to what the loop  *)
(* asks of them: a read or write on a closed connection returns an error, a   *)
(* blocking Dequeue returns nil once the queue is closed and empty, Enqueue   *)
(* on a closed queue returns an error and waits while the queue is full.      *)

MaxIn == 2           \* results of ReadMsg while the connection is open
MaxOut == 1          \* capacity of the outgoing queue
MaxWrites == 1       \* calls of Write

\* the goroutines that call Exit: the two loops and another caller
LpExiters == {"LoopRead", "LoopWrite", "caller"}

\* what ReadMsg and Decode give: a request, a ConnCtrl message, bytes that do
\* not decode, a net.Error or io.EOF, another error
LpReads == {"request", "CloseRead", "CloseWrite", "undecodable", "netError", "otherError"}
LpReadErrors == {"netError", "otherError"}

\* what loop.handle and codec.Encode give for a request
LpHandled == {"EmptyMsg", "message", "encodeError"}

LpNoWrite == [pc |-> "none", after |-> FALSE, err |-> FALSE]

\* conn.ReadMsg: the results the connection can give
Conn_ReadMsg(closes, rdClosed) ==
  IF closes > 0 \/ rdClosed = 1 THEN LpReadErrors ELSE LpReads

\* conn.WriteMsg: the results the connection can give
Conn_WriteMsg(closes, wrClosed) ==
  IF closes > 0 \/ wrClosed = 1 THEN LpReadErrors ELSE {"nil"} \cup LpReadErrors

\* out.Dequeue(block): an element, nil, or "wait" while the caller is blocked
Queue_Dequeue(n, closed, block) ==
  IF n > 0 THEN (IF closed THEN {"element", "nil"} ELSE {"element"})
  ELSE IF closed \/ ~block THEN {"nil"} ELSE {"wait"}

\* out.Enqueue(bytes): an error on a closed queue, "wait" while the queue is full
Queue_Enqueue(n, closed) ==
  IF closed THEN "error" ELSE IF n < MaxOut THEN "nil" ELSE "wait"

\* mutation of Exit: the flag is stored, not compared
compareAndSwap_Store(flag) == TRUE

\* atomic.CompareAndSwapUint32(&flag, 0, 1)
compareAndSwap(flag) == flag = 0

\* IsRunning(): atomic.LoadUint32(&loop.closed) == 0
IsRunning == lpClosed = 0

\* WriteClosed(): atomic.LoadUint32(&loop.wrClosed) == 1
WriteClosed == lpWrClosed = 1

\* ReadClosed(): atomic.LoadUint32(&loop.rdClosed) == 1
ReadClosed == lpRdClosed = 1

\* NewReadWriteLoop, OnExit(f) or not, and the two loops started
LpInit ==
  /\ lpClosed = 0 /\ lpWrClosed = 0 /\ lpRdClosed = 0
  /\ lpConnCloses = 0
  /\ lpOut = 0 /\ lpOutClosed = FALSE
  /\ lpOnExit \in BOOLEAN
  /\ lpOnExitRuns = 0
  /\ lpRd = "for" /\ lpWr = "for" /\ lpBlock = TRUE
  /\ lpExit = [e \in LpExiters |-> "none"]
  /\ lpWrite = LpNoWrite
  /\ lpIn = 0 /\ lpWrites = 0

LpIdle ==
  /\ lpClosed = 0 /\ lpWrClosed = 0 /\ lpRdClosed = 0
  /\ lpConnCloses = 0
  /\ lpOut = 0 /\ lpOutClosed = FALSE
  /\ lpOnExit = FALSE
  /\ lpOnExitRuns = 0
  /\ lpRd = "for" /\ lpWr = "for" /\ lpBlock = TRUE
  /\ lpExit = [e \in LpExiters |-> "none"]
  /\ lpWrite = LpNoWrite
  /\ lpIn = 0 /\ lpWrites = 0

lpFlags == <<lpClosed, lpWrClosed, lpRdClosed>>
lpConnOut == <<lpConnCloses, lpOut, lpOutClosed>>
lpExitState == <<lpOnExit, lpOnExitRuns, lpExit>>
lpCallers == <<lpWrite, lpWrites>>

(* ---- Exit ---- *)

\* another goroutine calls loop.Exit()
LpExitCall ==
  /\ lpExit["caller"] = "none"
  /\ lpExit' = [lpExit EXCEPT !["caller"] = "CompareAndSwap"]
  /\ UNCHANGED <<lpFlags, lpConnOut, lpOnExit, lpOnExitRuns, lpRd, lpWr, lpBlock, lpCallers, lpIn>>

\* if atomic.CompareAndSwapUint32(&loop.closed, 0, 1) { ... }; return
LpExitCas(e) ==
  /\ lpExit[e] = "CompareAndSwap"
  /\ IF compareAndSwap(lpClosed)
     THEN lpClosed' = 1 /\ lpExit' = [lpExit EXCEPT ![e] = "Close"]
     ELSE lpClosed' = lpClosed /\ lpExit' = [lpExit EXCEPT ![e] = "returned"]
  /\ UNCHANGED <<lpWrClosed, lpRdClosed, lpConnOut, lpOnExit, lpOnExitRuns, lpRd, lpWr, lpBlock,
                 lpCallers, lpIn>>

\* loop.conn.Flush(); err = loop.conn.Close()
LpExitClose(e) ==
  /\ lpExit[e] = "Close"
  /\ lpConnCloses' = lpConnCloses + 1
  /\ lpExit' = [lpExit EXCEPT ![e] = "out.Close"]
  /\ UNCHANGED <<lpFlags, lpOut, lpOutClosed, lpOnExit, lpOnExitRuns, lpRd, lpWr, lpBlock,
                 lpCallers, lpIn>>

\* loop.out.Close()
LpExitOutClose(e) ==
  /\ lpExit[e] = "out.Close"
  /\ lpOutClosed' = TRUE
  /\ lpExit' = [lpExit EXCEPT ![e] = "onExit"]
  /\ UNCHANGED <<lpFlags, lpConnCloses, lpOut, lpOnExit, lpOnExitRuns, lpRd, lpWr, lpBlock,
                 lpCallers, lpIn>>

\* if loop.onExit != nil { loop.onExit() }; return
LpExitOnExit(e) ==
  /\ lpExit[e] = "onExit"
  /\ lpOnExitRuns' = IF lpOnExit THEN lpOnExitRuns + 1 ELSE lpOnExitRuns
  /\ lpExit' = [lpExit EXCEPT ![e] = "returned"]
  /\ UNCHANGED <<lpFlags, lpConnOut, lpOnExit, lpRd, lpWr, lpBlock, lpCallers, lpIn>>

(* ---- LoopRead ---- *)

\* for loop.IsRunning() && !loop.ReadClosed()
LpRdFor ==
  /\ lpRd = "for"
  /\ lpRd' = IF IsRunning /\ ~ReadClosed THEN "ReadMsg" ELSE "done"
  /\ UNCHANGED <<lpFlags, lpConnOut, lpExitState, lpWr, lpBlock, lpCallers, lpIn>>

\* n, err := loop.conn.ReadMsg(bytes), loop.codec.Decode and the switch on the message
LpRdReadMsg(r) ==
  /\ lpRd = "ReadMsg"
  /\ r \in Conn_ReadMsg(lpConnCloses, lpRdClosed)
  /\ IF lpConnCloses > 0 \/ lpRdClosed = 1 THEN lpIn' = lpIn
     ELSE lpIn < MaxIn /\ lpIn' = lpIn + 1
  /\ lpRd' = CASE r \in {"netError", "undecodable"} -> "Exit"
               [] r = "otherError" -> "for"
               [] r = "CloseRead" -> "CloseRead"
               [] r = "CloseWrite" -> "CloseWrite"
               [] OTHER -> "handle"
  /\ lpExit' = IF r \in {"netError", "undecodable"}
               THEN [lpExit EXCEPT !["LoopRead"] = "CompareAndSwap"] ELSE lpExit
  /\ UNCHANGED <<lpFlags, lpConnOut, lpOnExit, lpOnExitRuns, lpWr, lpBlock, lpCallers>>

\* loop.Exit() has returned: return
LpRdReturn ==
  /\ lpRd = "Exit"
  /\ lpExit["LoopRead"] = "returned"
  /\ lpRd' = "done"
  /\ UNCHANGED <<lpFlags, lpConnOut, lpExitState, lpWr, lpBlock, lpCallers, lpIn>>

\* CloseRead(): the CompareAndSwap of rdClosed and conn.CloseRead(); continue
LpRdCloseRead ==
  /\ lpRd = "CloseRead"
  /\ lpRdClosed' = 1
  /\ lpRd' = "for"
  /\ UNCHANGED <<lpClosed, lpWrClosed, lpConnOut, lpExitState, lpWr, lpBlock, lpCallers, lpIn>>

\* CloseWrite(): the CompareAndSwap of wrClosed
LpRdCloseWrite ==
  /\ lpRd = "CloseWrite"
  /\ IF compareAndSwap(lpWrClosed)
     THEN lpWrClosed' = 1 /\ lpRd' = "conn.CloseWrite"
     ELSE lpWrClosed' = lpWrClosed /\ lpRd' = "for"
  /\ UNCHANGED <<lpClosed, lpRdClosed, lpConnOut, lpExitState, lpWr, lpBlock, lpCallers, lpIn>>

\* CloseWrite(): err = loop.conn.CloseWrite(); loop.out.Close(); continue
LpRdCloseWriteOut ==
  /\ lpRd = "conn.CloseWrite"
  /\ lpOutClosed' = TRUE
  /\ lpRd' = "for"
  /\ UNCHANGED <<lpFlags, lpConnCloses, lpOut, lpExitState, lpWr, lpBlock, lpCallers, lpIn>>

\* out := loop.handle(...); if loop.WriteClosed() || out == EmptyMsg { continue }; Encode
LpRdHandle(h) ==
  /\ lpRd = "handle"
  /\ lpRd' = IF WriteClosed \/ h \in {"EmptyMsg", "encodeError"} THEN "for" ELSE "Enqueue"
  /\ UNCHANGED <<lpFlags, lpConnOut, lpExitState, lpWr, lpBlock, lpCallers, lpIn>>

\* loop.out.Enqueue(outBytes[:n])
LpRdEnqueue ==
  /\ lpRd = "Enqueue"
  /\ Queue_Enqueue(lpOut, lpOutClosed) # "wait"
  /\ lpOut' = IF Queue_Enqueue(lpOut, lpOutClosed) = "nil" THEN lpOut + 1 ELSE lpOut
  /\ lpRd' = "for"
  /\ UNCHANGED <<lpFlags, lpConnCloses, lpOutClosed, lpExitState, lpWr, lpBlock, lpCallers, lpIn>>

(* ---- LoopWrite ---- *)

\* for loop.IsRunning() && !loop.WriteClosed()
LpWrFor ==
  /\ lpWr = "for"
  /\ lpWr' = IF IsRunning /\ ~WriteClosed THEN "Dequeue" ELSE "done"
  /\ UNCHANGED <<lpFlags, lpConnOut, lpExitState, lpRd, lpBlock, lpCallers, lpIn>>

\* msgV := loop.out.Dequeue(block); on nil, if !block { loop.conn.Flush(); block = true }
LpWrDequeue(v) ==
  /\ lpWr = "Dequeue"
  /\ v \in Queue_Dequeue(lpOut, lpOutClosed, lpBlock) \ {"wait"}
  /\ IF v = "element"
     THEN lpOut' = lpOut - 1 /\ lpWr' = "WriteMsg" /\ lpBlock' = lpBlock
     ELSE lpOut' = lpOut /\ lpWr' = "for" /\ lpBlock' = TRUE
  /\ UNCHANGED <<lpFlags, lpConnCloses, lpOutClosed, lpExitState, lpRd, lpCallers, lpIn>>

\* err := loop.conn.WriteMsg(bytes): Exit on a net.Error or EOF, else block = false
LpWrWriteMsg(r) ==
  /\ lpWr = "WriteMsg"
  /\ r \in Conn_WriteMsg(lpConnCloses, lpWrClosed)
  /\ IF r = "netError"
     THEN /\ lpWr' = "Exit"
          /\ lpExit' = [lpExit EXCEPT !["LoopWrite"] = "CompareAndSwap"]
          /\ lpBlock' = lpBlock
     ELSE /\ lpWr' = "for"
          /\ lpExit' = lpExit
          /\ lpBlock' = FALSE
  /\ UNCHANGED <<lpFlags, lpConnOut, lpOnExit, lpOnExitRuns, lpRd, lpCallers, lpIn>>

\* loop.Exit() has returned: return
LpWrReturn ==
  /\ lpWr = "Exit"
  /\ lpExit["LoopWrite"] = "returned"
  /\ lpWr' = "done"
  /\ UNCHANGED <<lpFlags, lpConnOut, lpExitState, lpRd, lpBlock, lpCallers, lpIn>>

(* ---- Write ---- *)

\* a goroutine calls loop.Write(msg)
LpWriteCall ==
  /\ lpWrite.pc \in {"none", "returned"}
  /\ lpWrites < MaxWrites
  /\ lpWrites' = lpWrites + 1
  /\ lpWrite' = [pc |-> "IsRunning", after |-> ~IsRunning \/ WriteClosed, err |-> FALSE]
  /\ UNCHANGED <<lpFlags, lpConnOut, lpExitState, lpRd, lpWr, lpBlock, lpIn>>

\* if !loop.IsRunning() { return errors.New("loop is not running") }
LpWriteIsRunning ==
  /\ lpWrite.pc = "IsRunning"
  /\ lpWrite' = IF ~IsRunning THEN [lpWrite EXCEPT !.pc = "returned", !.err = TRUE]
                ELSE [lpWrite EXCEPT !.pc = "WriteClosed"]
  /\ UNCHANGED <<lpFlags, lpConnOut, lpExitState, lpRd, lpWr, lpBlock, lpIn, lpWrites>>

\* if loop.WriteClosed() { return errors.New("write is closed") }
LpWriteWriteClosed ==
  /\ lpWrite.pc = "WriteClosed"
  /\ lpWrite' = IF WriteClosed THEN [lpWrite EXCEPT !.pc = "returned", !.err = TRUE]
                ELSE [lpWrite EXCEPT !.pc = "Enqueue"]
  /\ UNCHANGED <<lpFlags, lpConnOut, lpExitState, lpRd, lpWr, lpBlock, lpIn, lpWrites>>

\* loop.codec.Encode(msg, bytes); return loop.out.Enqueue(bytes[:n])
LpWriteEnqueue(encoded) ==
  /\ lpWrite.pc = "Enqueue"
  /\ ~encoded \/ Queue_Enqueue(lpOut, lpOutClosed) # "wait"
  /\ lpOut' = IF encoded /\ Queue_Enqueue(lpOut, lpOutClosed) = "nil" THEN lpOut + 1 ELSE lpOut
  /\ lpWrite' = [lpWrite EXCEPT !.pc = "returned",
                                !.err = ~encoded \/ Queue_Enqueue(lpOut, lpOutClosed) = "error"]
  /\ UNCHANGED <<lpFlags, lpConnCloses, lpOutClosed, lpExitState, lpRd, lpWr, lpBlock, lpIn, lpWrites>>

\* the steps the goroutines take by themselves: those of LoopRead but for a
\* ReadMsg that waits for the peer, those of LoopWrite, those of an Exit in progress
LpReadSteps ==
  \/ LpRdFor \/ LpRdReturn \/ LpRdCloseRead
  \/ (\E r \in LpReadErrors : (lpConnCloses > 0 \/ lpRdClosed = 1) /\ LpRdReadMsg(r))
  \/ LpRdCloseWrite \/ LpRdCloseWriteOut \/ (\E h \in LpHandled : LpRdHandle(h)) \/ LpRdEnqueue
LpWriteSteps ==
  \/ LpWrFor \/ (\E v \in {"element", "nil"} : LpWrDequeue(v))
  \/ (\E r \in {"nil"} \cup LpReadErrors : LpWrWriteMsg(r)) \/ LpWrReturn
LpExitSteps(e) == LpExitCas(e) \/ LpExitClose(e) \/ LpExitOutClose(e) \/ LpExitOnExit(e)

-----------------------------------------------------------------------------
MsIdle ==
  /\ msSets = <<>> /\ msPos = <<>> /\ msHeap = <<>> /\ msCurrentSets = <<>>
  /\ msCurrentLabels = 0 /\ msOut = <<>> /\ msDone = FALSE

MiIdle ==
  /\ miIters = <<>> /\ miPos = <<>> /\ miH = <<>> /\ miHNil = TRUE
  /\ miOut = <<>> /\ miDone = FALSE

RtIdle == RtInitWith("nested")

exVars == <<fqVars, rvVars, chVars, lvVars, rwVars, flVars, feVars, nbVars, wsVars, gaVars, maVars, meVars, faVars, reVars, gmVars, lpVars>>
ExIdle == FqIdle /\ RvIdle /\ ChIdle /\ LvIdle /\ RwIdle /\ FlIdle /\ FeIdle /\ NbIdle /\ WsIdle /\ GaIdle /\ MaIdle /\ MeIdle /\ FaIdle /\ ReIdle /\ GmIdle /\ LpIdle
notFq == <<msVars, miVars, foVars, rtVars, rvVars, chVars, lvVars, rwVars, flVars, feVars, nbVars, wsVars, gaVars, maVars, meVars, faVars, reVars, gmVars, lpVars>>
idleButFq == MsIdle /\ MiIdle /\ FoInit /\ RtIdle /\ RvIdle /\ ChIdle /\ LvIdle /\ RwIdle /\ FlIdle /\ FeIdle /\ NbIdle /\ WsIdle /\ GaIdle /\ MaIdle /\ MeIdle /\ FaIdle /\ ReIdle /\ GmIdle /\ LpIdle
notRv == <<msVars, miVars, foVars, rtVars, fqVars, chVars, lvVars, rwVars, flVars, feVars, nbVars, wsVars, gaVars, maVars, meVars, faVars, reVars, gmVars, lpVars>>
idleButRv == MsIdle /\ MiIdle /\ FoInit /\ RtIdle /\ FqIdle /\ ChIdle /\ LvIdle /\ RwIdle /\ FlIdle /\ FeIdle /\ NbIdle /\ WsIdle /\ GaIdle /\ MaIdle /\ MeIdle /\ FaIdle /\ ReIdle /\ GmIdle /\ LpIdle
notCh == <<msVars, miVars, foVars, rtVars, fqVars, rvVars, lvVars, rwVars, flVars, feVars, nbVars, wsVars, gaVars, maVars, meVars, faVars, reVars, gmVars, lpVars>>
idleButCh == MsIdle /\ MiIdle /\ FoInit /\ RtIdle /\ FqIdle /\ RvIdle /\ LvIdle /\ RwIdle /\ FlIdle /\ FeIdle /\ NbIdle /\ WsIdle /\ GaIdle /\ MaIdle /\ MeIdle /\ FaIdle /\ ReIdle /\ GmIdle /\ LpIdle
notLv == <<msVars, miVars, foVars, rtVars, fqVars, rvVars, chVars, rwVars, flVars, feVars, nbVars, wsVars, gaVars, maVars, meVars, faVars, reVars, gmVars, lpVars>>
idleButLv == MsIdle /\ MiIdle /\ FoInit /\ RtIdle /\ FqIdle /\ RvIdle /\ ChIdle /\ RwIdle /\ FlIdle /\ FeIdle /\ NbIdle /\ WsIdle /\ GaIdle /\ MaIdle /\ MeIdle /\ FaIdle /\ ReIdle /\ GmIdle /\ LpIdle
notRw == <<msVars, miVars, foVars, rtVars, fqVars, rvVars, chVars, lvVars, flVars, feVars, nbVars, wsVars, gaVars, maVars, meVars, faVars, reVars, gmVars, lpVars>>
idleButRw == MsIdle /\ MiIdle /\ FoInit /\ RtIdle /\ FqIdle /\ RvIdle /\ ChIdle /\ LvIdle /\ FlIdle /\ FeIdle /\ NbIdle /\ WsIdle /\ GaIdle /\ MaIdle /\ MeIdle /\ FaIdle /\ ReIdle /\ GmIdle /\ LpIdle
notFl == <<msVars, miVars, foVars, rtVars, fqVars, rvVars, chVars, lvVars, rwVars, feVars, nbVars, wsVars, gaVars, maVars, meVars, faVars, reVars, gmVars, lpVars>>
idleButFl == MsIdle /\ MiIdle /\ FoInit /\ RtIdle /\ FqIdle /\ RvIdle /\ ChIdle /\ LvIdle /\ RwIdle /\ FeIdle /\ NbIdle /\ WsIdle /\ GaIdle /\ MaIdle /\ MeIdle /\ FaIdle /\ ReIdle /\ GmIdle /\ LpIdle
notFe == <<msVars, miVars, foVars, rtVars, fqVars, rvVars, chVars, lvVars, rwVars, flVars, nbVars, wsVars, gaVars, maVars, meVars, faVars, reVars, gmVars, lpVars>>
idleButFe == MsIdle /\ MiIdle /\ FoInit /\ RtIdle /\ FqIdle /\ RvIdle /\ ChIdle /\ LvIdle /\ RwIdle /\ FlIdle /\ NbIdle /\ WsIdle /\ GaIdle /\ MaIdle /\ MeIdle /\ FaIdle /\ ReIdle /\ GmIdle /\ LpIdle
notNb == <<msVars, miVars, foVars, rtVars, fqVars, rvVars, chVars, lvVars, rwVars, flVars, feVars, wsVars, gaVars, maVars, meVars, faVars, reVars, gmVars, lpVars>>
idleButNb == MsIdle /\ MiIdle /\ FoInit /\ RtIdle /\ FqIdle /\ RvIdle /\ ChIdle /\ LvIdle /\ RwIdle /\ FlIdle /\ FeIdle /\ WsIdle /\ GaIdle /\ MaIdle /\ MeIdle /\ FaIdle /\ ReIdle /\ GmIdle /\ LpIdle
notWs == <<msVars, miVars, foVars, rtVars, fqVars, rvVars, chVars, lvVars, rwVars, flVars, feVars, nbVars, gaVars, maVars, meVars, faVars, reVars, gmVars, lpVars>>
idleButWs == MsIdle /\ MiIdle /\ FoInit /\ RtIdle /\ FqIdle /\ RvIdle /\ ChIdle /\ LvIdle /\ RwIdle /\ FlIdle /\ FeIdle /\ NbIdle /\ GaIdle /\ MaIdle /\ MeIdle /\ FaIdle /\ ReIdle /\ GmIdle /\ LpIdle
notGa == <<msVars, miVars, foVars, rtVars, fqVars, rvVars, chVars, lvVars, rwVars, flVars, feVars, nbVars, wsVars, maVars, meVars, faVars, reVars, gmVars, lpVars>>
idleButGa == MsIdle /\ MiIdle /\ FoInit /\ RtIdle /\ FqIdle /\ RvIdle /\ ChIdle /\ LvIdle /\ RwIdle /\ FlIdle /\ FeIdle /\ NbIdle /\ WsIdle /\ MaIdle /\ MeIdle /\ FaIdle /\ ReIdle /\ GmIdle /\ LpIdle
notMa == <<msVars, miVars, foVars, rtVars, fqVars, rvVars, chVars, lvVars, rwVars, flVars, feVars, nbVars, wsVars, gaVars, meVars, faVars, reVars, gmVars, lpVars>>
idleButMa == MsIdle /\ MiIdle /\ FoInit /\ RtIdle /\ FqIdle /\ RvIdle /\ ChIdle /\ LvIdle /\ RwIdle /\ FlIdle /\ FeIdle /\ NbIdle /\ WsIdle /\ GaIdle /\ MeIdle /\ FaIdle /\ ReIdle /\ GmIdle /\ LpIdle
notMe == <<msVars, miVars, foVars, rtVars, fqVars, rvVars, chVars, lvVars, rwVars, flVars, feVars, nbVars, wsVars, gaVars, maVars, faVars, reVars, gmVars, lpVars>>
idleButMe == MsIdle /\ MiIdle /\ FoInit /\ RtIdle /\ FqIdle /\ RvIdle /\ ChIdle /\ LvIdle /\ RwIdle /\ FlIdle /\ FeIdle /\ NbIdle /\ WsIdle /\ GaIdle /\ MaIdle /\ FaIdle /\ ReIdle /\ GmIdle /\ LpIdle
notFa == <<msVars, miVars, foVars, rtVars, fqVars, rvVars, chVars, lvVars, rwVars, flVars, feVars, nbVars, wsVars, gaVars, maVars, meVars, reVars, gmVars, lpVars>>
idleButFa == MsIdle /\ MiIdle /\ FoInit /\ RtIdle /\ FqIdle /\ RvIdle /\ ChIdle /\ LvIdle /\ RwIdle /\ FlIdle /\ FeIdle /\ NbIdle /\ WsIdle /\ GaIdle /\ MaIdle /\ MeIdle /\ ReIdle /\ GmIdle /\ LpIdle
notRe == <<msVars, miVars, foVars, rtVars, fqVars, rvVars, chVars, lvVars, rwVars, flVars, feVars, nbVars, wsVars, gaVars, maVars, meVars, faVars, gmVars, lpVars>>
idleButRe == MsIdle /\ MiIdle /\ FoInit /\ RtIdle /\ FqIdle /\ RvIdle /\ ChIdle /\ LvIdle /\ RwIdle /\ FlIdle /\ FeIdle /\ NbIdle /\ WsIdle /\ GaIdle /\ MaIdle /\ MeIdle /\ FaIdle /\ GmIdle /\ LpIdle
notGm == <<msVars, miVars, foVars, rtVars, fqVars, rvVars, chVars, lvVars, rwVars, flVars, feVars, nbVars, wsVars, gaVars, maVars, meVars, faVars, reVars, lpVars>>
idleButGm == MsIdle /\ MiIdle /\ FoInit /\ RtIdle /\ FqIdle /\ RvIdle /\ ChIdle /\ LvIdle /\ RwIdle /\ FlIdle /\ FeIdle /\ NbIdle /\ WsIdle /\ GaIdle /\ MaIdle /\ MeIdle /\ FaIdle /\ ReIdle /\ LpIdle
notLp == <<msVars, miVars, foVars, rtVars, fqVars, rvVars, chVars, lvVars, rwVars, flVars, feVars, nbVars, wsVars, gaVars, maVars, meVars, faVars, reVars, gmVars>>
idleButLp == MsIdle /\ MiIdle /\ FoInit /\ RtIdle /\ FqIdle /\ RvIdle /\ ChIdle /\ LvIdle /\ RwIdle /\ FlIdle /\ FeIdle /\ NbIdle /\ WsIdle /\ GaIdle /\ MaIdle /\ MeIdle /\ FaIdle /\ ReIdle /\ GmIdle
notMsMa == <<miVars, foVars, rtVars, fqVars, rvVars, chVars, lvVars, rwVars, flVars, feVars, nbVars, wsVars, gaVars, meVars, faVars, reVars, gmVars, lpVars>>
idleButMsMa == MiIdle /\ FoInit /\ RtIdle /\ FqIdle /\ RvIdle /\ ChIdle /\ LvIdle /\ RwIdle /\ FlIdle /\ FeIdle /\ NbIdle /\ WsIdle /\ GaIdle /\ MeIdle /\ FaIdle /\ ReIdle /\ GmIdle /\ LpIdle
notMsMe == <<miVars, foVars, rtVars, fqVars, rvVars, chVars, lvVars, rwVars, flVars, feVars, nbVars, wsVars, gaVars, maVars, faVars, reVars, gmVars, lpVars>>
idleButMsMe == MiIdle /\ FoInit /\ RtIdle /\ FqIdle /\ RvIdle /\ ChIdle /\ LvIdle /\ RwIdle /\ FlIdle /\ FeIdle /\ NbIdle /\ WsIdle /\ GaIdle /\ MaIdle /\ FaIdle /\ ReIdle /\ GmIdle /\ LpIdle
notRvRe == <<msVars, miVars, foVars, rtVars, fqVars, chVars, lvVars, rwVars, flVars, feVars, nbVars, wsVars, gaVars, maVars, meVars, faVars, gmVars, lpVars>>
idleButRvRe == MsIdle /\ MiIdle /\ FoInit /\ RtIdle /\ FqIdle /\ ChIdle /\ LvIdle /\ RwIdle /\ FlIdle /\ FeIdle /\ NbIdle /\ WsIdle /\ GaIdle /\ MaIdle /\ MeIdle /\ FaIdle /\ GmIdle /\ LpIdle
vars == <<msVars, miVars, foVars, rtVars, exVars>>

InitMergeSet == MsInit /\ MiIdle /\ FoInit /\ RtIdle /\ ExIdle
NextMergeSet ==
  \/ mergeSeriesSet_Next /\ UNCHANGED <<miVars, foVars, rtVars, exVars>>
  \/ singleSet_Next /\ UNCHANGED <<miVars, foVars, rtVars, exVars>>
SpecMergeSet == InitMergeSet /\ [][NextMergeSet]_vars

InitMergeIter == MiInit /\ MsIdle /\ FoInit /\ RtIdle /\ ExIdle
NextMergeIter == mergeIterator_Next /\ UNCHANGED <<msVars, foVars, rtVars, exVars>>
SpecMergeIter == InitMergeIter /\ [][NextMergeIter]_vars

notFo == <<msVars, miVars, rtVars, exVars>>

InitFailover == FoInit /\ MsIdle /\ MiIdle /\ RtIdle /\ ExIdle

WatcherThreads == { <<g, Watcher>> : g \in Gateways }
LocalThreads == {<<1, Watcher>>, <<1, 2>>}

\* K gateways, each with its watcher: the node events drive FailoverIfNeeded
NextFailover ==
  \/ (\E a \in Addrs : NodeKeyDeleted(a)) /\ UNCHANGED notFo
  \/ (\E a \in Addrs : NodeReportsMaster(a)) /\ UNCHANGED notFo
  \/ (\E g \in Gateways : WatcherNodeEvent(g)) /\ UNCHANGED notFo
  \/ (\E g \in Gateways : WatcherRefreshStart(g)) /\ UNCHANGED notFo
  \/ (\E g \in Gateways : WatcherRefreshPublish(g)) /\ UNCHANGED notFo
  \/ (\E t \in WatcherThreads : FoGetShard(t)) /\ UNCHANGED notFo
  \/ (\E t \in WatcherThreads : FoLatch(t)) /\ UNCHANGED notFo
  \/ (\E t \in WatcherThreads : FoMutexAcquire(t)) /\ UNCHANGED notFo
  \/ (\E t \in WatcherThreads : FoMutexFail(t)) /\ UNCHANGED notFo
  \/ (\E t \in WatcherThreads : FoGetMaster(t)) /\ UNCHANGED notFo
  \/ (\E t \in WatcherThreads : FoGetSlaves(t)) /\ UNCHANGED notFo
  \/ (\E t \in WatcherThreads : FoConnectWrite(t)) /\ UNCHANGED notFo
  \/ (\E t \in WatcherThreads : FoAwaitReply(t)) /\ UNCHANGED notFo
  \/ (\E t \in WatcherThreads : FoRefreshStart(t)) /\ UNCHANGED notFo
  \/ (\E t \in WatcherThreads : FoRefreshPublish(t)) /\ UNCHANGED notFo
  \/ (\E t \in WatcherThreads : FoCallbackReturn(t)) /\ UNCHANGED notFo
  \/ (\E t \in WatcherThreads : FoUnlatch(t)) /\ UNCHANGED notFo
SpecFailover == InitFailover /\ [][NextFailover]_vars

\* one gateway: its watcher and a second goroutine that calls FailoverIfNeeded
NextFailoverLocal ==
  \/ (\E a \in Addrs : NodeKeyDeleted(a)) /\ UNCHANGED notFo
  \/ (\E a \in Addrs : NodeReportsMaster(a)) /\ UNCHANGED notFo
  \/ (\E g \in {1} : WatcherNodeEvent(g)) /\ UNCHANGED notFo
  \/ (\E g \in {1} : WatcherRefreshStart(g)) /\ UNCHANGED notFo
  \/ (\E g \in {1} : WatcherRefreshPublish(g)) /\ UNCHANGED notFo
  \/ (\E a \in Addrs : CallFailoverIfNeeded(<<1, 2>>, a)) /\ UNCHANGED notFo
  \/ (\E t \in LocalThreads : FoGetShard(t)) /\ UNCHANGED notFo
  \/ (\E t \in LocalThreads : FoLatch(t)) /\ UNCHANGED notFo
  \/ (\E t \in LocalThreads : FoMutexAcquire(t)) /\ UNCHANGED notFo
  \/ (\E t \in LocalThreads : FoMutexFail(t)) /\ UNCHANGED notFo
  \/ (\E t \in LocalThreads : FoGetMaster(t)) /\ UNCHANGED notFo
  \/ (\E t \in LocalThreads : FoGetSlaves(t)) /\ UNCHANGED notFo
  \/ (\E t \in LocalThreads : FoConnectWrite(t)) /\ UNCHANGED notFo
  \/ (\E t \in LocalThreads : FoAwaitReply(t)) /\ UNCHANGED notFo
  \/ (\E t \in LocalThreads : FoRefreshStart(t)) /\ UNCHANGED notFo
  \/ (\E t \in LocalThreads : FoRefreshPublish(t)) /\ UNCHANGED notFo
  \/ (\E t \in LocalThreads : FoCallbackReturn(t)) /\ UNCHANGED notFo
  \/ (\E t \in LocalThreads : FoUnlatch(t)) /\ UNCHANGED notFo
SpecFailoverLocal == InitFailover /\ [][NextFailoverLocal]_vars

notRt == <<msVars, miVars, foVars, exVars>>

InitRoute == RtInit /\ MsIdle /\ MiIdle /\ FoInit /\ ExIdle

GatewayCallers == {<<1, 1>>, <<2, 1>>}
LocalCallers == {<<1, 1>>, <<1, 2>>}

\* K gateways, each with its route watcher and one caller of getShardIDs
NextRoute ==
  \/ (\E d \in Days : RtLeaseExpire(d)) /\ UNCHANGED notRt
  \/ (\E g \in Gateways : RtRouteEvent(g)) /\ UNCHANGED notRt
  \/ (\E t \in GatewayCallers, d \in Days : RtCall(t, d, MaxRtCalls)) /\ UNCHANGED notRt
  \/ (\E t \in GatewayCallers : RtCheck1(t)) /\ UNCHANGED notRt
  \/ (\E t \in GatewayCallers : RtGetRouteInfo(t)) /\ UNCHANGED notRt
  \/ (\E t \in GatewayCallers : RtLock(t)) /\ UNCHANGED notRt
  \/ (\E t \in GatewayCallers : RtCheck2(t)) /\ UNCHANGED notRt
  \/ (\E t \in GatewayCallers : RtEtcdGet(t)) /\ UNCHANGED notRt
  \/ (\E t \in GatewayCallers : RtAllocate(t)) /\ UNCHANGED notRt
  \/ (\E t \in GatewayCallers : RtCachePut(t)) /\ UNCHANGED notRt
  \/ (\E t \in GatewayCallers : RtUnlockReturn(t)) /\ UNCHANGED notRt
SpecRoute == InitRoute /\ [][NextRoute]_vars

\* one gateway: its route watcher and two concurrent callers of getShardIDs
NextRouteLocal ==
  \/ (\E d \in Days : RtLeaseExpire(d)) /\ UNCHANGED notRt
  \/ (\E g \in {1} : RtRouteEvent(g)) /\ UNCHANGED notRt
  \/ (\E t \in LocalCallers, d \in Days : RtCall(t, d, MaxLocalCalls)) /\ UNCHANGED notRt
  \/ (\E t \in LocalCallers : RtCheck1(t)) /\ UNCHANGED notRt
  \/ (\E t \in LocalCallers : RtGetRouteInfo(t)) /\ UNCHANGED notRt
  \/ (\E t \in LocalCallers : RtLock(t)) /\ UNCHANGED notRt
  \/ (\E t \in LocalCallers : RtCheck2(t)) /\ UNCHANGED notRt
  \/ (\E t \in LocalCallers : RtEtcdGet(t)) /\ UNCHANGED notRt
  \/ (\E t \in LocalCallers : RtAllocate(t)) /\ UNCHANGED notRt
  \/ (\E t \in LocalCallers : RtCachePut(t)) /\ UNCHANGED notRt
  \/ (\E t \in LocalCallers : RtUnlockReturn(t)) /\ UNCHANGED notRt
SpecRouteLocal == InitRoute /\ [][NextRouteLocal]_vars

InitFanoutSelect == FqInit /\ idleButFq
NextFanoutSelect ==
  \/ (\E idx \in 1..MaxQueriers : FqSubQuery(idx)) /\ UNCHANGED notFq
  \/ FqReturn /\ UNCHANGED notFq
SpecFanoutSelect == InitFanoutSelect /\ [][NextFanoutSelect]_vars

\* RefreshCluster alone, over every content of the node keys
InitRefresh ==
  /\ \E st \in [RvAddrs -> UNION { NodeStates(a) : a \in RvAddrs }] :
       /\ \A a \in RvAddrs : st[a] \in NodeStates(a)
       /\ RvInitWith(st)
  /\ idleButRv
NextRefresh ==
  \/ (\E t \in {1} : RvCas(t)) /\ UNCHANGED notRv
  \/ (\E t \in {1} : RvEnumerate(t)) /\ UNCHANGED notRv
  \/ (\E t \in {1} : RvLoop(t)) /\ UNCHANGED notRv
  \/ (\E t \in {1} : RvPublish(t)) /\ UNCHANGED notRv
  \/ (\E t \in {1} : RvReturn(t)) /\ UNCHANGED notRv
SpecRefresh == InitRefresh /\ [][NextRefresh]_vars

\* concurrent RefreshCluster calls and a reader, while node keys change
InitView == RvInitWith(RvStore0) /\ idleButRv
NextView ==
  \/ (\E a \in RvAddrs : \E rec \in NodeStates(a) : RvNodeChange(a, rec)) /\ UNCHANGED notRv
  \/ (\E t \in Refreshers : RvCas(t)) /\ UNCHANGED notRv
  \/ (\E t \in Refreshers : RvEnumerate(t)) /\ UNCHANGED notRv
  \/ (\E t \in Refreshers : RvLoop(t)) /\ UNCHANGED notRv
  \/ (\E t \in Refreshers : RvPublish(t)) /\ UNCHANGED notRv
  \/ (\E t \in Refreshers : RvReturn(t)) /\ UNCHANGED notRv
  \/ (\E r \in Readers : RdLoad(r)) /\ UNCHANGED notRv
SpecView == InitView /\ [][NextView]_vars

\* the watchers of K gateways over a shard that has lost nodes before
InitFailoverDegraded ==
  /\ \E st \in DegradedStores : FoInitWith(st)
  /\ MsIdle /\ MiIdle /\ RtIdle /\ ExIdle
NextFailoverDegraded ==
  \/ (\E a \in Addrs : NodeKeyDeleted(a)) /\ UNCHANGED notFo
  \/ (\E g \in Gateways : WatcherNodeEvent(g)) /\ UNCHANGED notFo
  \/ (\E g \in Gateways : WatcherRefreshStart(g)) /\ UNCHANGED notFo
  \/ (\E g \in Gateways : WatcherRefreshPublish(g)) /\ UNCHANGED notFo
  \/ (\E t \in WatcherThreads : FoGetShard(t)) /\ UNCHANGED notFo
  \/ (\E t \in WatcherThreads : FoLatch(t)) /\ UNCHANGED notFo
  \/ (\E t \in WatcherThreads : FoMutexAcquire(t)) /\ UNCHANGED notFo
  \/ (\E t \in WatcherThreads : FoMutexFail(t)) /\ UNCHANGED notFo
  \/ (\E t \in WatcherThreads : FoGetMaster(t)) /\ UNCHANGED notFo
  \/ (\E t \in WatcherThreads : FoGetSlaves(t)) /\ UNCHANGED notFo
  \/ (\E t \in WatcherThreads : FoConnectWrite(t)) /\ UNCHANGED notFo
  \/ (\E t \in WatcherThreads : FoAwaitReply(t)) /\ UNCHANGED notFo
  \/ (\E t \in WatcherThreads : FoRefreshStart(t)) /\ UNCHANGED notFo
  \/ (\E t \in WatcherThreads : FoRefreshPublish(t)) /\ UNCHANGED notFo
  \/ (\E t \in WatcherThreads : FoCallbackReturn(t)) /\ UNCHANGED notFo
  \/ (\E t \in WatcherThreads : FoUnlatch(t)) /\ UNCHANGED notFo
SpecFailoverDegraded == InitFailoverDegraded /\ [][NextFailoverDegraded]_vars

\* the choice of the promotion target over every slave list and dead node
InitChoose == ChInit /\ idleButCh
NextChoose ==
  \/ ChChoose /\ UNCHANGED notCh
SpecChoose == InitChoose /\ [][NextChoose]_vars

\* mergeQuerier.LabelValues over every outcome of 2..MaxLvQueriers shards
InitLabelValues == LvInit /\ idleButLv
NextLabelValues ==
  \/ (\E idx \in 1..MaxLvQueriers : LvSubQuery(idx)) /\ UNCHANGED notLv
  \/ LvReturn /\ UNCHANGED notLv
SpecLabelValues == InitLabelValues /\ [][NextLabelValues]_vars

\* one sample written through a gateway, Selects through the gateways
InitRoundTrip == RwInit /\ idleButRw
NextRoundTrip ==
  \/ (\E g \in RwGateways : RwStartAdd(g)) /\ UNCHANGED notRw
  \/ (\E g \in RwGateways : RwStartSelect(g)) /\ UNCHANGED notRw
  \/ (\E g \in RwGateways : RwGetShardIDs(g)) /\ UNCHANGED notRw
  \/ (\E g \in RwGateways : RwAllocate(g)) /\ UNCHANGED notRw
  \/ (\E g \in RwGateways : RwAdd(g)) /\ UNCHANGED notRw
  \/ (\E g \in RwGateways : RwSelect(g)) /\ UNCHANGED notRw
SpecRoundTrip == InitRoundTrip /\ [][NextRoundTrip]_vars

\* fanoutAppender.Flush over every map of appenders and every iteration order
InitFlush == FlInit /\ idleButFl
NextFlush ==
  \/ (\E s \in FlShardIDs : FlFlushOne(s)) /\ UNCHANGED notFl
  \/ FlReturn /\ UNCHANGED notFl
SpecFlush == InitFlush /\ [][NextFlush]_vars

\* FailoverIfNeeded over every argument, view and state of the latches
InitFailoverEntry == FeInit /\ idleButFe
NextFailoverEntry ==
  \/ FeTests /\ UNCHANGED notFe
  \/ FeEncode /\ UNCHANGED notFe
  \/ FeCas /\ UNCHANGED notFe
  \/ FeMutexRun /\ UNCHANGED notFe
  \/ FeDeferred /\ UNCHANGED notFe
SpecFailoverEntry == InitFailoverEntry /\ [][NextFailoverEntry]_vars

\* one response of the node watch, over every batch of events
InitNodeBatch == NbInit /\ idleButNb
NextNodeBatch ==
  \/ NbEvent /\ UNCHANGED notNb
  \/ NbRefresh /\ UNCHANGED notNb
SpecNodeBatch == InitNodeBatch /\ [][NextNodeBatch]_vars

\* the select loop of the watcher; select takes a ready case at random, so a case
\* that stays ready is taken
InitWatchLoop == WsInit /\ idleButWs
NextWatchLoop ==
  \/ (\E c \in WsChans : WsStoreChange(c)) /\ UNCHANGED notWs
  \/ (\E c \in WsChans : WsClosed(c)) /\ UNCHANGED notWs
  \/ (\E c \in WsChans : WsReceive(c)) /\ UNCHANGED notWs
SpecWatchLoop ==
  /\ InitWatchLoop /\ [][NextWatchLoop]_vars
  /\ \A c \in WsChans : WF_vars(WsReceive(c) /\ UNCHANGED notWs)

\* the getShardIDs calls of one goroutine, over every result of the store
InitGetShardIDs == GaInit /\ idleButGa
NextGetShardIDs ==
  \/ (\E d \in Days : GaCall(d)) /\ UNCHANGED notGa
  \/ GaCheck1 /\ UNCHANGED notGa
  \/ GaLock /\ UNCHANGED notGa
  \/ GaCheck2 /\ UNCHANGED notGa
  \/ GaSgGet /\ UNCHANGED notGa
  \/ GaKeyGet /\ UNCHANGED notGa
  \/ GaGetMasters /\ UNCHANGED notGa
  \/ GaLease /\ UNCHANGED notGa
  \/ GaPut /\ UNCHANGED notGa
  \/ GaCache /\ UNCHANGED notGa
  \/ GaUnlockReturn /\ UNCHANGED notGa
SpecGetShardIDs == InitGetShardIDs /\ [][NextGetShardIDs]_vars

\* Next() and At() of a merge series set over zero, two or three children
InitMergeAt == MsInit /\ Len(msSets) # 1 /\ MiIdle /\ FoInit /\ RtIdle /\ ExIdle
NextMergeAt ==
  \/ MaNext /\ UNCHANGED notMsMa
  \/ MaAt /\ UNCHANGED notMsMa
SpecMergeAt == InitMergeAt /\ [][NextMergeAt]_vars

\* Next() and Err() of a merge series set whose children may have failed
InitMergeErr == MeInit /\ idleButMsMe
NextMergeErr ==
  \/ MeNext /\ UNCHANGED notMsMe
  \/ MeErr /\ UNCHANGED notMsMe
SpecMergeErr == InitMergeErr /\ [][NextMergeErr]_vars

\* a sequence of Add calls on one fanoutAppender
InitFanoutAdd == FaInit /\ idleButFa
NextFanoutAdd ==
  \/ (\E routeErr, createErr, addErr \in BOOLEAN : \E shardID \in FaShardIDs :
        FaAdd(routeErr, shardID, createErr, addErr)) /\ UNCHANGED notFa
SpecFanoutAdd == InitFanoutAdd /\ [][NextFanoutAdd]_vars

\* concurrent RefreshCluster calls whose GetNodes may fail, while node keys change
InitRefreshErr == RvInitWith(RvStore0) /\ ReIdle /\ idleButRvRe
NextRefreshErr ==
  \/ (\E a \in RvAddrs : \E rec \in NodeStates(a) : RvNodeChange(a, rec)) /\ UNCHANGED <<reVars, notRvRe>>
  \/ (\E t \in Refreshers : ReCas(t)) /\ UNCHANGED notRvRe
  \/ (\E t \in Refreshers : \E ok \in BOOLEAN : ReEnumerate(t, ok)) /\ UNCHANGED notRvRe
  \/ (\E t \in Refreshers : RvLoop(t)) /\ UNCHANGED <<reVars, notRvRe>>
  \/ (\E t \in Refreshers : RvPublish(t)) /\ UNCHANGED <<reVars, notRvRe>>
  \/ (\E t \in Refreshers : ReReturn(t)) /\ UNCHANGED notRvRe
SpecRefreshErr == InitRefreshErr /\ [][NextRefreshErr]_vars

\* Watch() and the watcher goroutine it starts, with node events arriving
InitWatch == GmInit /\ idleButGm
NextWatch ==
  \/ (\E ok \in BOOLEAN : GmRefreshCluster(ok)) /\ UNCHANGED notGm
  \/ GmWatch /\ UNCHANGED notGm
  \/ GmAssign /\ UNCHANGED notGm
  \/ (\E ok \in BOOLEAN : GmDial(ok)) /\ UNCHANGED notGm
  \/ (\E ev \in NbEvents : GmNodeEvent(ev)) /\ UNCHANGED notGm
  \/ GmReceive /\ UNCHANGED notGm
  \/ GmFailoverIfNeeded /\ UNCHANGED notGm
  \/ (\E ok \in BOOLEAN : GmWatcherRefresh(ok)) /\ UNCHANGED notGm
  \/ GmGetMaster /\ UNCHANGED notGm
SpecWatch == InitWatch /\ [][NextWatch]_vars

\* a ReadWriteLoop with its two loops, a caller of Exit and a caller of Write.
\* The goroutines are scheduled fairly; a blocked ReadMsg of an open connection
\* and the calls from outside are not.
InitReadWriteLoop == LpInit /\ idleButLp
NextReadWriteLoop ==
  \/ LpExitCall /\ UNCHANGED notLp
  \/ (\E e \in LpExiters : LpExitCas(e)) /\ UNCHANGED notLp
  \/ (\E e \in LpExiters : LpExitClose(e)) /\ UNCHANGED notLp
  \/ (\E e \in LpExiters : LpExitOutClose(e)) /\ UNCHANGED notLp
  \/ (\E e \in LpExiters : LpExitOnExit(e)) /\ UNCHANGED notLp
  \/ LpRdFor /\ UNCHANGED notLp
  \/ (\E r \in LpReads : LpRdReadMsg(r)) /\ UNCHANGED notLp
  \/ LpRdReturn /\ UNCHANGED notLp
  \/ LpRdCloseRead /\ UNCHANGED notLp
  \/ LpRdCloseWrite /\ UNCHANGED notLp
  \/ LpRdCloseWriteOut /\ UNCHANGED notLp
  \/ (\E h \in LpHandled : LpRdHandle(h)) /\ UNCHANGED notLp
  \/ LpRdEnqueue /\ UNCHANGED notLp
  \/ LpWrFor /\ UNCHANGED notLp
  \/ (\E v \in {"element", "nil"} : LpWrDequeue(v)) /\ UNCHANGED notLp
  \/ (\E r \in {"nil"} \cup LpReadErrors : LpWrWriteMsg(r)) /\ UNCHANGED notLp
  \/ LpWrReturn /\ UNCHANGED notLp
  \/ LpWriteCall /\ UNCHANGED notLp
  \/ LpWriteIsRunning /\ UNCHANGED notLp
  \/ LpWriteWriteClosed /\ UNCHANGED notLp
  \/ (\E encoded \in BOOLEAN : LpWriteEnqueue(encoded)) /\ UNCHANGED notLp
SpecReadWriteLoop ==
  /\ InitReadWriteLoop
  /\ [][NextReadWriteLoop]_vars
  /\ WF_vars(LpReadSteps /\ UNCHANGED notLp)
  /\ WF_vars(LpWriteSteps /\ UNCHANGED notLp)
  /\ \A e \in LpExiters : WF_vars(LpExitSteps(e) /\ UNCHANGED notLp)

-----------------------------------------------------------------------------
(* Claims about the merge series set and the merge iterator *)

Range(s) == { s[i] : i \in 1..Len(s) }
StrictlyAscending(s) == \A i \in 1..Len(s) : \A j \in 1..Len(s) : i < j => s[i] < s[j]

\* C8: over two or more children that iterate in strictly ascending order, every
\* successful Next() sets currentLabels (the label set just yielded) strictly
\* greater than the label sets of all series yielded before: the output is
\* strictly ascending.
C8_OutputStrictlyAscending ==
  Len(msSets) >= 2 =>
    /\ StrictlyAscending(msOut)
    /\ (msOut # <<>> => msCurrentLabels = msOut[Len(msOut)])

\* two children share a label set and the merge has yielded three series
C8_Witness ==
  /\ Len(msSets) >= 2
  /\ Len(msOut) >= 3
  /\ \E c, d \in 1..Len(msSets) : c # d /\ Range(msSets[c]) \cap Range(msSets[d]) # {}

\* C9: once Next() has returned false, the label sets yielded are exactly the
\* label sets that occur in at least one child, each yielded exactly once.
C9_OutputIsUnionOnce ==
  msDone =>
    /\ Range(msOut) = UNION { Range(msSets[c]) : c \in 1..Len(msSets) }
    /\ Len(msOut) = Cardinality(Range(msOut))

\* the children {a,b,d}, {a,c}, {b,c,d} have been merged to a, b, c, d
C9_Witness ==
  /\ msSets = << <<1, 2, 4>>, <<1, 3>>, <<2, 3, 4>> >>
  /\ msDone
  /\ msOut = <<1, 2, 3, 4>>

\* C10: the timestamps At() returns after successive successful Next() calls
\* are non-decreasing.
C10_TimesNonDecreasing ==
  \A i \in 1..Len(miOut) : \A j \in 1..Len(miOut) : i < j => miOut[i][1] <= miOut[j][1]

\* three points were returned, two of them with the same t from different iterators
C10_Witness ==
  /\ Len(miIters) >= 2
  /\ Len(miOut) >= 3
  /\ \E i, j \in 1..Len(miOut) :
       i < j /\ miOut[i][1] = miOut[j][1] /\ miOut[i][2][1] # miOut[j][2][1]

-----------------------------------------------------------------------------
(* Claims about the failover coordinator *)

\* the commands sent on behalf of dead node d, as <<thread, index>>
CommandsFor(d) ==
  { x \in Threads \X (1..(MaxDeaths + MaxCalls)) :
      x[2] <= Len(sent[x[1]]) /\ sent[x[1]][x[2]].dead = d }

\* positions inside the callback of mutexRun("failover", ...)
CallbackPcs == {"getmaster", "getslaves", "connect", "wait", "fo_refresh", "fo_publish", "cbret"}
\* positions between the successful CompareAndSwap of the latch and its deferred reset
PastLatchPcs == {"mutex", "unlatch"} \cup CallbackPcs

\* C1: for a dead master, over all invocations of FailoverIfNeeded on all gateways,
\* at most one 'slaveof no-one' command is ever sent.
C1_AtMostOneCommand ==
  \A d \in Addrs : InitialRole(d) = "master" => Cardinality(CommandsFor(d)) <= 1

\* C2: at most one invocation, over all gateways, is between acquiring the
\* "failover" mutex and returning from the callback; the invocation inside the
\* callback is the holder of the mutex, and an invocation that has left the
\* callback, by whatever exit path, does not hold the mutex any more.
C2_OneFailoverInFlight ==
  /\ Cardinality({ t \in Threads : pc[t] \in CallbackPcs }) <= 1
  /\ \A t \in Threads : pc[t] \in CallbackPcs => mutexHolder = t
  /\ \A t \in Threads : pc[t] \notin CallbackPcs => mutexHolder # t

\* an invocation has left the callback by the timeout path and released the mutex,
\* the invocation of the other gateway, which waited for the mutex, is inside
C2_Witness ==
  \E t, u \in Threads :
    /\ t[1] # u[1]
    /\ pc[u] = "unlatch" /\ foExit[u] = "timeout"
    /\ pc[t] = "getmaster" /\ mutexHolder = t

\* C3: within one process, while an invocation holds the latch of a shard (it is
\* between its CompareAndSwap and its deferred reset), no other invocation for a
\* node of that shard is past the latch.
C3_LatchExcludesSecond ==
  \A t, u \in Threads :
    (/\ t # u /\ t[1] = u[1]
     /\ pc[t] \in PastLatchPcs
     /\ pc[u] \in PastLatchPcs)
    => ShardOf(foNode[t]) # ShardOf(foNode[u])

-----------------------------------------------------------------------------
(* Claims about the route cache *)

\* the cache entry of gateway g for day d: byDay[d] of the RouteInfo in meta.routeInfos
cached(g, d) == IF routeInfos[g] = 0 THEN NoEntry ELSE RouteInfo_Get(ri[g][routeInfos[g]], d)
neverExpired(d) == \A i \in 1..Len(expired) : expired[i] # d

C5_GatewaysAgree ==
  \A t \in Callers :
    (rtResult[t].valid /\ rtResult[t].found /\ neverExpired(rtResult[t].day)) =>
      /\ kv[rtResult[t].day].found => kv[rtResult[t].day].group = rtResult[t].group
      /\ \A u \in Callers :
           (rtResult[u].valid /\ rtResult[u].found /\ rtResult[u].day = rtResult[t].day)
           => rtResult[u].group = rtResult[t].group

-----------------------------------------------------------------------------
(* Claims about the fan-out query *)

\* C11: when the fan-out Select has returned: if some shard's Select failed it
\* returned no series set and a multi-error that holds the error of every failed
\* shard once and no other; if none failed it returned, without error, the merge
\* over the sets of all shards, each at the index of its querier.
C11_SelectAllOrNothing ==
  fqRet.returned =>
    LET failed == { i \in 1..Len(fqQueriers) : fqQueriers[i].err }
    IN  IF failed # {}
        THEN /\ fqRet.nil
             /\ Range(fqRet.err) = failed
             /\ Len(fqRet.err) = Cardinality(failed)
        ELSE /\ ~fqRet.nil
             /\ fqRet.err = <<>>
             /\ fqRet.sets = [i \in 1..Len(fqQueriers) |-> [nil |-> FALSE, set |-> fqQueriers[i].set]]

\* shard X returned two series and shard Y an error
C11_Witness ==
  /\ fqRet.returned
  /\ Len(fqQueriers) = 2
  /\ ~fqQueriers[1].err /\ Len(fqQueriers[1].set) = 2
  /\ fqQueriers[2].err
  /\ fqRet.err = <<2>>

-----------------------------------------------------------------------------
(* Claims about the cluster view *)

\* the shards of a map that exist in it
viewShard(id, s) == rvMaps[id][s]

\* how many times node n is listed in shard sh, as master or as slave
occurrences(sh, n) ==
  (IF sh.Master = n THEN 1 ELSE 0) + Cardinality({ i \in 1..Len(sh.Slaves) : sh.Slaves[i] = n })

\* C12: in the published cluster view, the master of every shard s is nil or a
\* node of shard s whose MasterIP and MasterPort are both empty, and every slave
\* of s is a node of shard s with a non-empty MasterIP or MasterPort (a shard
\* holds one Master field: zero or one master).
C12_ViewShardsWellFormed ==
  \A s \in RvShardIDs :
    LET sh == viewShard(rvView, s) IN
    /\ \/ sh.Master = NoNode
       \/ sh.Master.ShardID = s /\ sh.Master.MasterIP = "" /\ sh.Master.MasterPort = ""
    /\ \A i \in 1..Len(sh.Slaves) :
         /\ sh.Slaves[i].ShardID = s
         /\ sh.Slaves[i].MasterIP # "" \/ sh.Slaves[i].MasterPort # ""

\* a refresh has published a shard with a master and a slave that has only one of
\* the two fields set
C12_Witness ==
  /\ rvPc[1] = "return"
  /\ \E s \in RvShardIDs :
       LET sh == viewShard(rvView, s) IN
       /\ sh.Master # NoNode
       /\ \E i \in 1..Len(sh.Slaves) : sh.Slaves[i].MasterIP = "" /\ sh.Slaves[i].MasterPort = "port"

\* C13: after a successful refresh every enumerated node is listed in the
\* published view exactly once in the shard of its ShardID and in no other shard,
\* two masters of one shard included.
C13_EveryNodeListedOnce ==
  rvPc[1] = "return" =>
    \A i \in 1..Len(rvMapInfo[rvView].nodes) :
      LET n == rvMapInfo[rvView].nodes[i] IN
      \A s \in RvShardIDs :
        occurrences(viewShard(rvView, s), n) = (IF s = n.ShardID THEN 1 ELSE 0)

\* C14: the map a reader has loaded is the complete result of the loop over one
\* enumeration, and it is still what the reader saw when it loaded it.
C14_ReadersSeeCompleteMaps ==
  /\ rvMapInfo[rvView].complete
  /\ \A r \in Readers :
       rdMap[r] # 0 =>
         /\ rvMapInfo[rdMap[r]].complete
         /\ rvMaps[rdMap[r]] = refreshLoop(EmptyMap, rvMapInfo[rdMap[r]].nodes)
         /\ rvMaps[rdMap[r]] = rdSeen[r]

\* a reader holds an old map while a refresh, which enumerated other nodes, is in
\* the middle of its loop, and another map has been published meanwhile
C14_Witness ==
  /\ rdMap[1] # 0 /\ rdMap[1] # rvView
  /\ \E t \in Refreshers :
       /\ rvPc[t] = "loop"
       /\ rvMaps[rvLocal[t]] # EmptyMap
       /\ rvMapInfo[rvLocal[t]].nodes # rvMapInfo[rdMap[1]].nodes

\* C15: when a refresh has published, the view was enumerated no earlier than the
\* start of any RefreshCluster call that has returned nil, losers of the
\* CompareAndSwap included.
C15_ReturnedCallsSubsumed ==
  \A t \in Refreshers :
    rvPc[t] = "return" => rvMapInfo[rvView].version >= rvReturned

-----------------------------------------------------------------------------
(* Claims about the failover of a degraded shard *)

\* C16: a 'slaveof no-one' command sent on behalf of a dead node never goes to
\* the dead node itself; it goes to another node of its shard.
C16_CommandGoesToSurvivor ==
  \A t \in Threads : \A i \in 1..Len(sent[t]) :
    /\ sent[t][i].to # sent[t][i].dead
    /\ ShardOf(sent[t][i].to) = ShardOf(sent[t][i].dead)

\* C18: when FailoverIfNeeded returns for a dead master after its callback found
\* no slave, the error is the no-available-slave error, the invocation has sent
\* no command, and the view of the gateway reports no master for the shard.
C18_NoSlaveLeavesMasterNil ==
  [][\A t \in Threads :
       (/\ pc[t] = "unlatch" /\ pc'[t] # "unlatch"
        /\ foExit[t] = "noslave"
        /\ InitialRole(foNode[t]) = "master")
       => /\ foErr[t] = "noslave"
          /\ sent'[t] = <<>>
          /\ GetMaster(view'[t[1]], ShardOf(foNode[t])) = Nil]_vars

-----------------------------------------------------------------------------
(* Claims about the choice of the promotion target *)

\* C17: the chosen slave is a slave of the list; it has the idc of the dead node
\* whenever a slave of the list has that idc, and it is the first slave otherwise.
C17_ChosenMatchesIdc ==
  chChosen # Nil =>
    /\ chChosen \in Range(chSlaves)
    /\ IF \E i \in 1..Len(chSlaves) : IDC(chSlaves[i]) = IDC(chNode)
       THEN IDC(chChosen) = IDC(chNode)
       ELSE chChosen = chSlaves[1]

\* dead master m (idc z1) with slaves s1 (z1), s2 (z2): s1 is chosen
C17_Witness ==
  /\ chNode = "m" /\ chSlaves = <<"s1", "s2">>
  /\ chChosen = "s1"

-----------------------------------------------------------------------------
(* Claims about the fan-out LabelValues *)

-----------------------------------------------------------------------------
(* Claims about the write/read round trip *)

\* C19: a Select over [t, t] that started after the sample (labels, t, v) was
\* added fans out to the shard the sample was routed to and returns exactly one
\* series with exactly the one point (t, v).
C19_RoundTrip ==
  \A g \in RwGateways :
    rwRet[g].returned =>
      /\ rwAdded \in Range(rwRet[g].fanout)
      /\ rwRet[g].series = << <<RwPoint>> >>

-----------------------------------------------------------------------------
(* Claims about the fan-out appender *)

\* C21: when Flush has returned, every appender of the map has been flushed, and
\* the returned multi-error holds the error of every failing appender once and
\* nothing else; it is nil when no appender failed.
C21_FlushAllCollectErrors ==
  flRet.returned =>
    LET failed == { s \in FlShardIDs : flAppenders[s] = "err" }
    IN  /\ flFlushed = { s \in FlShardIDs : flAppenders[s] # "none" }
        /\ Range(flRet.err) = failed
        /\ Len(flRet.err) = Cardinality(failed)

\* the appender of A failed first, those of B (ok) and C (failed) were flushed after it
C21_Witness ==
  /\ flRet.returned
  /\ flAppenders = [s \in FlShardIDs |-> IF s = "B" THEN "ok" ELSE "err"]
  /\ flRet.err = <<"A", "C">>
  /\ flFlushed = FlShardIDs

-----------------------------------------------------------------------------
(* Claims about the route-key watcher *)

\* the day d a route event is about: its key is the route key of (Metric, d)
eventDay(ev, d) == ev.key = routeKey(rtLayout, Metric, d)

\* gateway g has applied every route event and none of its callers is inside
\* getShardIDs
routeQuiet(g) ==
  /\ rch[g] = <<>>
  /\ \A t \in Callers : t[1] = g => rpc[t] = "idle"

\* C22: when the route key of (m, d) has been deleted and is absent, and the
\* watcher of a gateway has applied the DELETE event, the cache of the gateway
\* has no group for (m, d): the next getShardIDs(m, d) goes to the store.
C22_DeleteEvictsFromCache ==
  \A g \in Gateways : \A d \in Days :
    (~neverExpired(d) /\ ~kv[d].found /\ routeQuiet(g)) => ~cached(g, d).found

\* C28: the step in which the watcher applies a DELETE event for (m, d) removes
\* the whole entry of m from the cache when d is the Timeline of its RouteInfo;
\* otherwise it removes the group of d and leaves the groups of the other days.
C28_DeleteEventFrame ==
  [][\A g \in Gateways : \A d \in Days :
       (/\ rch[g] # <<>> /\ rch'[g] = Tail(rch[g])
        /\ Head(rch[g]).type = "DELETE" /\ eventDay(Head(rch[g]), d))
       => IF routeInfos[g] # 0 /\ ri[g][routeInfos[g]].Timeline = d
          THEN routeInfos'[g] = 0
          ELSE /\ ~cached(g, d)'.found
               /\ \A e \in Days \ {d} : cached(g, e)' = cached(g, e)]_vars

\* C29: the step in which the watcher applies a PUT event for the key
\* {ns}/route/{m}/{d} leaves the value of the event cached as the group of (m, d).
C29_PutEventCached ==
  [][\A g \in Gateways : \A d \in Days :
       (/\ rtLayout = "nested"
        /\ rch[g] # <<>> /\ rch'[g] = Tail(rch[g])
        /\ Head(rch[g]).type = "PUT" /\ eventDay(Head(rch[g]), d))
       => cached(g, d)' = Entry(Head(rch[g]).value)]_vars

-----------------------------------------------------------------------------
(* Claims: the tests of FailoverIfNeeded                                     *)

\* C23: inside the failover mutex, when the view's master of the dead node's shard
\* is not nil and has another address than the dead node, the procedure returns nil
\* and sends no command: the step of the master test leaves the callback with no
\* error, and from there to the return nothing is sent and no slave is promoted;
\* so the deletion of a slave of a shard whose master is in the view promotes nobody
C23_MasterPresentReturns ==
  /\ [](\A t \in Threads : foExit[t] = "already" => foErr[t] = "nil")
  /\ [][\A t \in Threads :
          LET master == GetMaster(view[t[1]], ShardOf(foNode[t])) IN
          /\ (/\ pc[t] = "getmaster" /\ pc'[t] # "getmaster"
              /\ master # Nil /\ master # foNode[t])
             => /\ pc'[t] = "cbret" /\ foExit'[t] = "already"
                /\ sent' = sent /\ promoted' = promoted
          /\ (foExit[t] = "already" /\ pc'[t] # pc[t])
             => /\ sent'[t] = sent[t] /\ promoted' = promoted
                /\ pc'[t] \in {"unlatch", afterFailover(t)}]_vars

\* a watcher handles the deletion of a slave while the view has the master: it has
\* left the callback at the master test
C23_Witness ==
  \E t \in Threads :
    /\ pc[t] = "unlatch" /\ foExit[t] = "already"
    /\ InitialRole(foNode[t]) = "slave"
    /\ GetMaster(view[t[1]], ShardOf(foNode[t])) = "m"
    /\ sent[t] = <<>>


\* C24: FailoverIfNeeded on a node whose MayOnline() is true, or whose ShardID is
\* not in the view, has no effect: it never gets past its tests, so it sets no
\* latch, does not take the mutex of the store and sends no command
C24_NoEffectWhenOnlineOrUnknown ==
  (/\ ~feNode.isNil
   /\ (feNode.mayOnline \/ feNode.ShardID \notin feShards))
  => /\ fePc \in {"called", "returned"}
     /\ feEffect = FeNoEffect

\* such calls have returned: one for an online node of a shard whose latch is free,
\* and one for a node of a shard that the view does not have
C24_Witness ==
  /\ fePc = "returned" /\ ~feNode.isNil
  /\ \/ feNode.mayOnline /\ feNode.ShardID \in feShards /\ feFailovering[feNode.ShardID] = 0
     \/ ~feNode.mayOnline /\ feNode.ShardID \notin feShards


\* C25: once the command was sent, the procedure returns nil exactly when the slave
\* answered Succeed, and an answer with another status is returned as an error,
\* whenever the answer comes relative to the wait of 15 s
C25_SuccessIffSucceed ==
  \A t \in Threads :
    (foExit[t] \in {"reply", "unreadable", "timeout"})
    => /\ (foErr[t] = "nil") <=> (foReply[t] = "succeed")
       /\ (foReply[t] = "failed") => (foErr[t] = "failed")


\* the nodes a reader of the view of gateway g sees
viewNodes(g) ==
  UNION { (IF view[g].shards[s].Master = Nil THEN {} ELSE {view[g].shards[s].Master})
          \cup Range(view[g].shards[s].Slaves) : s \in ShardIDs }

\* C26: once the command was sent, RefreshCluster is called before FailoverIfNeeded
\* returns, whatever became of the reply, and when FailoverIfNeeded returns the view
\* shows the nodes as they were after the command was sent: the dead node, whose key
\* was gone before the command, is not in it
C26_RefreshedOnReturn ==
  [][\A t \in Threads :
       /\ (pc[t] = "wait" /\ pc'[t] # "wait") => pc'[t] = "fo_refresh"
       /\ (/\ pc[t] = "unlatch" /\ pc'[t] # "unlatch"
           /\ foExit[t] \in {"reply", "unreadable", "timeout"})
          => foNode[t] \notin viewNodes(t[1])']_vars

-----------------------------------------------------------------------------
(* Claims: the node-key watcher                                              *)

\* the addresses in the JSON of the DELETE events of a batch that have a previous
\* value which is the JSON of a node, in the order of the batch
RECURSIVE nbDeletedNodes(_)
nbDeletedNodes(evs) ==
  IF evs = <<>> THEN <<>>
  ELSE LET ev == Head(evs)
           parsable == \E a \in NbAddrs : ev.PrevKv = NbEncode(a)
       IN  (IF ev.Type = "DELETE" /\ parsable
            THEN <<[call |-> "FailoverIfNeeded", node |-> ev.PrevKv[2]]>> ELSE <<>>)
           \o nbDeletedNodes(Tail(evs))

\* C27: for every batch of node events the watcher calls FailoverIfNeeded once for
\* each DELETE event with a parsable previous value, with the node of that value,
\* and calls RefreshCluster once, after all these calls; a batch of PUT events
\* alone gives the RefreshCluster and no FailoverIfNeeded
C27_BatchFailoversThenRefresh ==
  /\ nbPc = "range" =>
       nbLog = nbDeletedNodes(SubSeq(nbWresp, 1, nbNext - 1))
  /\ (nbPc = "select" /\ nbLog # <<>>) =>
       /\ nbLog = nbDeletedNodes(nbWresp) \o <<[call |-> "RefreshCluster", node |-> ""]>>
       /\ (\A i \in 1..Len(nbWresp) : nbWresp[i].Type = "PUT") => Len(nbLog) = 1

\* a batch with a PUT that replaces a node's value, a DELETE without a parsable
\* previous value and a DELETE of a node has been handled
C27_Witness ==
  /\ nbPc = "select" /\ Len(nbWresp) = 3 /\ Len(nbLog) = 2
  /\ \E i, j, k \in 1..3 :
       /\ nbWresp[i].Type = "PUT" /\ nbWresp[i].PrevKv = NbEncode("m")
       /\ nbWresp[j].Type = "DELETE" /\ nbWresp[j].PrevKv = NbGarbage
       /\ nbWresp[k].Type = "DELETE" /\ nbWresp[k].PrevKv = NbEncode("s1")


\* C30: when a watch channel fails or is closed, the watcher makes the watch again
\* (and refreshes before it applies further events), so that no watch stays closed
\* and the watcher never stops handling the events of a prefix
C30_ClosedWatchRestarted ==
  \A c \in WsChans : (wsChan[c] = "closed") ~> (wsChan[c] = "open")

-----------------------------------------------------------------------------
(* Claims: getShardIDs on a miss                                             *)

\* the error of the call in progress, or of the call that has just returned
gaCallErr == IF gaPc = "idle" THEN gaRet.err ELSE gaErr

\* C31: on a miss in the cache and in the store, when GetMasters() gives fewer
\* masters than ShardGroupCap the call fails, puts nothing and the cache has no
\* entry for the day; otherwise the group that is put, cached and returned is the
\* ShardIDs of the first ShardGroupCap masters, in the order GetMasters() gave
C31_AllocateFirstMasters ==
  gaMasters.called =>
    LET list == gaMasters.list
        d == IF gaPc = "idle" THEN gaRet.day ELSE gaDay
    IN  IF Len(list) < ShardGroupCap
        THEN /\ gaCallErr = "not enough shards"
             /\ gaPuts = 0
             /\ ~gaKv[d].found
             /\ ~RouteInfo_Get(gaInfo, d).found
        ELSE /\ gaPuts <= 1
             /\ gaPuts = 1 =>
                  /\ gaKv[d].found
                  /\ Len(gaKv[d].group) = ShardGroupCap
                  /\ \A i \in 1..ShardGroupCap : gaKv[d].group[i] = list[i]
             /\ (gaPc = "idle" /\ gaRet.err = "nil") =>
                  /\ gaPuts = 1
                  /\ gaRet.group = gaKv[d].group
                  /\ RouteInfo_Get(gaInfo, d) = gaKv[d]

\* a call with three masters has allocated the first two
C31_Witness ==
  /\ gaPc = "idle" /\ gaRet.valid /\ gaMasters.called
  /\ gaMasters.list = <<"B", "C", "A">>
  /\ gaRet.err = "nil" /\ gaRet.group = <<"B", "C">>

\* C38: when a read of the store, the lease grant or the put fails during a miss,
\* getShardIDs returns the error, the cache has no entry for the day and is as it
\* was before the call, ShardGrpRouteK included, and the lock of the metric is
\* free: the next call for the day is not blocked and goes to the store again
C38_StoreFailureLeavesCache ==
  /\ (gaPc = "idle" /\ gaRet.valid /\ gaRet.err = "store") =>
       /\ ~RouteInfo_Get(gaInfo, gaRet.day).found
       /\ gaInfo = gaBefore.info
       /\ gaRouteK = gaBefore.routeK
       /\ gaInfo.lock = NoThread
  /\ gaPc = "lock" => gaInfo.lock = NoThread
  /\ (gaPc = "check1" /\ gaRet.valid /\ gaRet.err = "store" /\ gaRet.day = gaDay) =>
       ~RouteInfo_Get(gaInfo, gaDay).found

\* after a call that failed at the store, a second call for the same day has taken
\* the lock and is about to read the store
C38_Witness ==
  /\ gaCalls = 2 /\ gaPc = "sgget"
  /\ gaRet.valid /\ gaRet.err = "store" /\ gaRet.day = gaDay

-----------------------------------------------------------------------------
(* Claims: At() and Err() of the merge series set                            *)

\* the children whose current series has the label set currentLabels
maEqualChildren ==
  { c \in 1..Len(msSets) : childHas(msSets, msPos, c) /\ msSets[c][msPos[c]] = msCurrentLabels }

\* C32: after every successful Next() currentSets holds exactly the children whose
\* current series has the label set currentLabels, each once; At() returns the
\* child's own series when there is one such child, and otherwise a merged series
\* with currentLabels whose constituents are the current series of those children
C32_CurrentSetsAndAt ==
  (Len(msSets) # 1 /\ msOut # <<>> /\ ~msDone) =>
    /\ maEqualChildren # {}
    /\ Range(msCurrentSets) = maEqualChildren
    /\ Len(msCurrentSets) = Cardinality(maEqualChildren)
    /\ maAt.called =>
         /\ maAt.labels = msCurrentLabels
         /\ Range(maAt.series) = { <<c, msPos[c]>> : c \in maEqualChildren }
         /\ Len(maAt.series) = Cardinality(maEqualChildren)
         /\ maAt.merged <=> Cardinality(maEqualChildren) > 1

\* At() was called where two of three children are at the same label set, after
\* an earlier series that one child had alone
C32_Witness ==
  /\ Len(msSets) = 3 /\ Len(msOut) >= 2 /\ ~msDone
  /\ maAt.called /\ maAt.merged /\ Len(maAt.series) = 2


\* C33: Err() returns nil when no child has an error, and otherwise the error of
\* the first child, in the order the children were given, whose Err() is not nil,
\* also when that child was exhausted at construction and never was in the heap
C33_ErrIsFirstChildError ==
  meRet.called =>
    LET failed == { c \in 1..Len(msSets) : meErrs[c] } IN
    IF failed = {} THEN meRet.err.nil
    ELSE /\ ~meRet.err.nil
         /\ meRet.err.of \in failed
         /\ \A c \in failed : meRet.err.of <= c

\* Err() has returned the error of an empty first child although a later child,
\* which was in the heap, has an error too
C33_Witness ==
  /\ meRet.called /\ Len(msSets) = 3
  /\ msSets[1] = <<>> /\ meErrs[1] /\ msSets[3] # <<>> /\ meErrs[3]
  /\ meRet.err = MeErrOf(1)

-----------------------------------------------------------------------------
(* Claims: fanoutAppender.Add                                                *)

\* C34: after any sequence of Add calls the map holds one appender for exactly the
\* shardIDs to which a sample was routed with the appender made or found, one
\* object per shardID for all its samples, and every such sample went to the
\* appender of the shardID the router returned; an Add whose routing or whose
\* newAppender fails returns the error and leaves the map as it was
C34_OneAppenderPerShard ==
  /\ { s \in FaShardIDs : faAppenders[s] # 0 } = { faLog[i].shardID : i \in 1..Len(faLog) }
  /\ \A i \in 1..Len(faLog) : faLog[i].app = faAppenders[faLog[i].shardID]
  /\ \A s, u \in FaShardIDs : (s # u /\ faAppenders[s] # 0) => faAppenders[s] # faAppenders[u]
  /\ faCreated = Cardinality({ s \in FaShardIDs : faAppenders[s] # 0 })
  /\ (faRet.called /\ faRet.err \in {"route", "create"}) => faAppenders = faBefore
  /\ (faRet.called /\ faRet.err \in {"nil", "add"}) =>
       /\ faLog # <<>> /\ faLog[Len(faLog)].sample = faAdds
       /\ \A s \in FaShardIDs : s # faLog[Len(faLog)].shardID => faAppenders[s] = faBefore[s]

\* three samples: two to shard A through the same appender, and one whose
\* newAppender failed for shard B
C34_Witness ==
  /\ faAdds = 3 /\ Len(faLog) = 2
  /\ faLog[1].shardID = "A" /\ faLog[2].shardID = "A" /\ faLog[1].app = faLog[2].app
  /\ faAppenders["B"] = 0 /\ faRet.err = "nil"

-----------------------------------------------------------------------------
(* Claims: the merge iterator drained                                        *)

\* the points of the constituent iterators, each named by its iterator and index
miPoints == { <<c, k>> : c \in 1..MaxChildren, k \in Times } \cap
            { p \in (1..MaxChildren) \X Times :
                p[1] <= Len(miIters) /\ p[2] <= Len(miIters[p[1]]) }

\* C35: a merge iterator that is drained emits every point of every constituent
\* exactly once: no point is emitted twice on the way, the points emitted when
\* Next() returns false are all the points, as many as the constituents have
\* together, points of equal t from different constituents included
C35_EveryPointOnce ==
  /\ \A i, j \in 1..Len(miOut) : i # j => miOut[i][2] # miOut[j][2]
  /\ \A i \in 1..Len(miOut) :
       /\ miOut[i][2] \in miPoints
       /\ miOut[i][1] = miIters[miOut[i][2][1]][miOut[i][2][2]]
  /\ miDone => { miOut[i][2] : i \in 1..Len(miOut) } = miPoints

\* three iterators of different lengths with a timestamp in common are drained
C35_Witness ==
  /\ miDone /\ Len(miIters) = 3
  /\ miIters[1] = <<1, 2, 3>> /\ miIters[2] = <<2>> /\ miIters[3] = <<2, 3>>
  /\ Len(miOut) = 6


\* C36: an invocation of FailoverIfNeeded that has set the latch of a shard resets
\* it before it returns, on every exit path: a latch that is set belongs to an
\* invocation that is between its CompareAndSwap and its return, and the step that
\* returns leaves the latch of its shard struct free
C36_LatchResetOnReturn ==
  /\ [](\A g \in Gateways : \A st \in latched[g] :
          \E t \in Threads :
            /\ t[1] = g /\ pc[t] \in PastLatchPcs
            /\ st = <<foRef[t], ShardOf(foNode[t])>>)
  /\ [][\A t \in Threads :
          (pc[t] = "unlatch" /\ pc'[t] # "unlatch")
          => <<foRef[t], ShardOf(foNode[t])>> \notin latched'[t[1]]]_vars

\* the watcher has sent a command, has returned, and a second invocation of the
\* same gateway for the same shard is past the latch
C36_Witness ==
  /\ sent[<<1, 1>>] # <<>> /\ pc[<<1, 1>>] = "idle"
  /\ pc[<<1, 2>>] \in PastLatchPcs \ {"unlatch"}

-----------------------------------------------------------------------------
(* RefreshCluster when GetNodes fails                                         *)

\* C37: a RefreshCluster call whose GetNodes fails returns the error, leaves the
\* published pointer and the map it points to as they were, and clears the
\* refreshing flag; the flag is set only while some call is past its
\* CompareAndSwap, so a call made after the failed one returned is not the loser.
C37_FailedEnumerationKeepsView ==
  /\ [](rvRefreshing # 0 => \E t \in Refreshers : rvPc[t] # "idle")
  /\ [][\A t \in Refreshers :
          (rvPc[t] = "getnodes" /\ reRet'[t] = "err") =>
            /\ rvPc'[t] = "idle"
            /\ rvView' = rvView
            /\ rvMaps'[rvView] = rvMaps[rvView]
            /\ rvRefreshing' = 0]_vars

\* call 1 failed while the store had changed, the view is still the one of the
\* start, and call 2, made afterwards, has won the CompareAndSwap
C37_Witness ==
  /\ reRet[1] = "err"
  /\ rvPc[1] = "idle"
  /\ rvVersion > 0
  /\ rvView = 1
  /\ rvPc[2] = "getnodes"

-----------------------------------------------------------------------------
(* Watch() and the first events of the watcher                               *)

\* C39: in every interleaving of Watch() with the watcher goroutine, no node
\* DELETE event is handled by FailoverIfNeeded while globalMeta is unset, and no
\* load of the shards pointer gives nil.
C39_GlobalMetaSetBeforeHandlers ==
  /\ ~(gmRead.by = "FailoverIfNeeded" /\ gmGlobal = "nil")
  /\ gmRead.shards # "nil"

-----------------------------------------------------------------------------
(* Claims: tcp.ReadWriteLoop                                                 *)

\* no Exit call is between its CompareAndSwap and its return
lpExitQuiet == \A e \in LpExiters : lpExit[e] \notin {"Close", "out.Close", "onExit"}

\* conn.Close() and the onExit callback run at most once, and once the Exit that
\* won the CompareAndSwap has returned they have run exactly once (the callback
\* if one is registered) and the outgoing queue is closed; a Write that begins
\* after Exit or CloseWrite took effect returns an error
lpExitOnce ==
  /\ lpConnCloses <= 1
  /\ lpOnExitRuns <= 1
  /\ (lpClosed = 1 /\ lpExitQuiet) =>
        /\ lpConnCloses = 1
        /\ lpOutClosed
        /\ lpOnExitRuns = (IF lpOnExit THEN 1 ELSE 0)
  /\ (lpWrite.pc = "returned" /\ lpWrite.after) => lpWrite.err

\* closed and wrClosed never go back to 0
lpFlagsStay ==
  /\ lpClosed = 1 => lpClosed' = 1
  /\ lpWrClosed = 1 => lpWrClosed' = 1

=============================================================================
